---- MODULE Spec2Model ----
(***************************************************************************)
(* Model of the statistics engine of app/statsimpact (engine.py,           *)
(* occupancy.py) and of the two handlers of routes.py that call the        *)
(* matrix builder.                                                         *)
(*                                                                         *)
(* Encoding of Python values:                                              *)
(*   - an optional string (secteur) that the code only tests for          *)
(*     truthiness is a string, None and "" both being NoSecteur;           *)
(*   - an optional date is a day ordinal >= 1 (day 1 = 2023-01-01),        *)
(*     None being NoDate; dates are always truthy in Python;               *)
(*   - an optional integer that the code tests with "is None" is the      *)
(*     empty sequence (None) or a one-element sequence <<v>>;              *)
(*   - an optional id that the code tests for truthiness is an integer,    *)
(*     None and 0 both being NoId.                                         *)
(***************************************************************************)
EXTENDS Integers, Sequences, FiniteSets, TLC

\* ---------------------------------------------------------------- bounds
NSessions == 2
NParticipants == 2
MaxDay == 2
DayStride == 100

\* ------------------------------------------------------------- constants
RESTRICTED == "__restricted__"
NoSecteur == ""
NoDate == 0
NoId == 0
None == <<>>
Some(v) == <<v>>

VARIABLES
  ateliers,     \* atelier id -> AtelierActivite row
  sessions,     \* session id -> SessionActivite row
  presences,    \* set of PresenceActivite rows [session_id, participant_id]
  participants, \* participant id -> Participant row
  periodes,     \* period id -> PeriodeFinancement row [date_debut, date_fin]
  actor,        \* current_user: [secteur_assigne, perms]
  flt,          \* StatsFilters
  req,          \* the remaining inputs of the call (view, limits, raw request values)
  pc,           \* "start", then the name of the operation that ran
  res,          \* what the operation returned
  queries       \* number of queries the operation issued to the data store

vars ==
  <<ateliers, sessions, presences, participants, periodes, actor, flt, req, pc, res, queries>>

AtelierIds == DOMAIN ateliers
SessionIds == DOMAIN sessions
ParticipantIds == DOMAIN participants

\* ----------------------------------------------------------- set helpers
RECURSIVE SumOver(_, _)
SumOver(S, f) ==
  IF S = {} THEN 0
  ELSE LET x == CHOOSE y \in S : TRUE IN f[x] + SumOver(S \ {x}, f)

Max2(a, b) == IF a >= b THEN a ELSE b
Min2(a, b) == IF a <= b THEN a ELSE b

\* ------------------------------------------------------------ the actor
\* User.has_perm: the code is among the permissions of the user's roles.
has_perm(a, c) == c \in a.perms

AllSecteursCaps == {"scope:all_secteurs", "stats:view_all", "statsimpact:view_all"}

\* engine._resolve_secteur_scope. User has no attribute "secteur", so
\* user_sect is secteur_assigne; the result NoSecteur stands for None.
resolve_secteur_scope(a, f) ==
  LET user_sect == a.secteur_assigne
      can_all == \E c \in AllSecteursCaps : has_perm(a, c)
  IN  IF can_all THEN f.secteur
      ELSE IF user_sect # NoSecteur THEN user_sect
      ELSE RESTRICTED

\* ---------------------------------------------------------- the accessor
\* engine._session_date_expr: coalesce(rdv_date, date_session)
session_date_expr(s) == IF s.rdv_date # NoDate THEN s.rdv_date ELSE s.date_session

atelier_of(sid) == ateliers[sessions[sid].atelier_id]

\* SQL comparison with a NULL date is not true.
date_ge(d, bound) == d # NoDate /\ d >= bound
date_le(d, bound) == d # NoDate /\ d <= bound

\* engine._apply_common_filters on the join Session x Atelier: the ids of the
\* sessions the filtered query returns.
apply_common_filters(a, f) ==
  LET eff_secteur == resolve_secteur_scope(a, f)
  IN  { sid \in SessionIds :
          /\ ~sessions[sid].is_deleted
          /\ ~atelier_of(sid).is_deleted
          /\ (eff_secteur # NoSecteur => atelier_of(sid).secteur = eff_secteur)
          /\ (f.atelier_id # NoId => sessions[sid].atelier_id = f.atelier_id)
          /\ (f.date_from # NoDate => date_ge(session_date_expr(sessions[sid]), f.date_from))
          /\ (f.date_to # NoDate => date_le(session_date_expr(sessions[sid]), f.date_to)) }

\* a variant that leaves out the filter on the workshop
query_sessions_for_period_any_atelier(a, f, date_from, date_to) ==
  LET eff_secteur == resolve_secteur_scope(a, f)
  IN  { sid \in SessionIds :
          /\ ~sessions[sid].is_deleted
          /\ ~atelier_of(sid).is_deleted
          /\ (eff_secteur # NoSecteur => atelier_of(sid).secteur = eff_secteur)
          /\ (date_from # NoDate => date_ge(session_date_expr(sessions[sid]), date_from))
          /\ (date_to # NoDate => date_le(session_date_expr(sessions[sid]), date_to)) }

\* engine._query_sessions_for_period: the same filters with explicit bounds.
query_sessions_for_period(a, f, date_from, date_to) ==
  LET eff_secteur == resolve_secteur_scope(a, f)
  IN  { sid \in SessionIds :
          /\ ~sessions[sid].is_deleted
          /\ ~atelier_of(sid).is_deleted
          /\ (eff_secteur # NoSecteur => atelier_of(sid).secteur = eff_secteur)
          /\ (f.atelier_id # NoId => sessions[sid].atelier_id = f.atelier_id)
          /\ (date_from # NoDate => date_ge(session_date_expr(sessions[sid]), date_from))
          /\ (date_to # NoDate => date_le(session_date_expr(sessions[sid]), date_to)) }

\* PresenceActivite rows whose session_id is in the given ids.
presences_in(sids) == { p \in presences : p.session_id \in sids }

pids_of(pres) == { p.participant_id : p \in pres }

\* engine._get_scoped_sessions_and_presences
get_scoped_sessions_and_presences(a, f) ==
  LET session_ids == apply_common_filters(a, f)
  IN  [sessions_rows |-> session_ids, presences |-> presences_in(session_ids)]

\* one query for the sessions, one for the presences when there is a session
get_scoped_queries(a, f) ==
  1 + (IF apply_common_filters(a, f) # {} THEN 1 ELSE 0)

\* ------------------------------------------------------------ arithmetic
\* round(n / d) to the nearest integer, ties to the even one (Python's round),
\* for d # 0; n / d is exact here where the code works on floats.
round_div(n, d) ==
  LET nn == IF d < 0 THEN 0 - n ELSE n
      dd == IF d < 0 THEN 0 - d ELSE d
      q == nn \div dd
      r == nn - q * dd
  IN  IF 2 * r < dd THEN q
      ELSE IF 2 * r > dd THEN q + 1
      ELSE IF q % 2 = 0 THEN q ELSE q + 1

\* lexicographic order on tuples of integers of the same length
RECURSIVE tuple_lt(_, _)
tuple_lt(s, t) ==
  IF s = <<>> THEN FALSE
  ELSE IF Head(s) # Head(t) THEN Head(s) < Head(t)
  ELSE tuple_lt(Tail(s), Tail(t))

\* the tuples of S as a sequence in ascending order
RECURSIVE sort_keys(_)
sort_keys(S) ==
  IF S = {} THEN <<>>
  ELSE LET m == CHOOSE x \in S : \A y \in S \ {x} : ~tuple_lt(y, x)
       IN  <<m>> \o sort_keys(S \ {m})

Range(s) == { s[i] : i \in DOMAIN s }

\* -------------------------------------------------------------- calendar
\* datetime.date: day ordinal 1 is 2023-01-01.
IsLeap(y) == (y % 4 = 0 /\ y % 100 # 0) \/ y % 400 = 0

DaysInMonth(y, m) ==
  IF m = 2 THEN (IF IsLeap(y) THEN 29 ELSE 28)
  ELSE IF m \in {4, 6, 9, 11} THEN 30 ELSE 31

RECURSIVE ymd_from(_, _, _)
ymd_from(y, m, n) ==
  IF n <= DaysInMonth(y, m) THEN <<y, m, n>>
  ELSE IF m = 12 THEN ymd_from(y + 1, 1, n - DaysInMonth(y, m))
  ELSE ymd_from(y, m + 1, n - DaysInMonth(y, m))

\* (d.year, d.month, d.day)
date_ymd(d) == ymd_from(2023, 1, d)

\* engine._group_label: the sort key of the bucket of date d. The label is a
\* rendering of the same numbers (a quarter, a month or a day of a year), so
\* the key stands for the label.
group_label(d, group_by) ==
  LET t == date_ymd(d)
  IN  IF group_by = "DAY" THEN <<t[1], t[2], t[3]>>
      ELSE IF group_by = "YEAR" THEN <<t[1], 0, 0>>
      ELSE IF group_by = "QUARTER" THEN <<t[1], (t[2] - 1) \div 3 + 1, 0>>
      ELSE <<t[1], t[2], 0>>

\* ------------------------------------------------------ time-of-day text
\* A time-of-day string is a sequence of one-character strings; the empty
\* sequence is None as well as "" (the code tests "not t").
DigitVal == [c \in {"0", "1", "2", "3", "4", "5", "6", "7", "8", "9"} |->
               CASE c = "0" -> 0 [] c = "1" -> 1 [] c = "2" -> 2 [] c = "3" -> 3
                 [] c = "4" -> 4 [] c = "5" -> 5 [] c = "6" -> 6 [] c = "7" -> 7
                 [] c = "8" -> 8 [] c = "9" -> 9]

IsDigit(c) == c \in DOMAIN DigitVal

RECURSIVE digits_value(_, _)
digits_value(s, acc) ==
  IF s = <<>> THEN acc ELSE digits_value(Tail(s), acc * 10 + DigitVal[Head(s)])

\* int(text) for a text without blanks: an optional sign and at least one
\* digit; None when int() raises ValueError.
py_int(s) ==
  LET body == IF s # <<>> /\ Head(s) \in {"+", "-"} THEN Tail(s) ELSE s
  IN  IF body = <<>> \/ \E i \in DOMAIN body : ~IsDigit(body[i]) THEN None
      ELSE IF s # <<>> /\ Head(s) = "-" THEN Some(0 - digits_value(body, 0))
      ELSE Some(digits_value(body, 0))

\* str.split(":")
RECURSIVE split_colon(_, _)
split_colon(s, cur) ==
  IF s = <<>> THEN <<cur>>
  ELSE IF Head(s) = ":" THEN <<cur>> \o split_colon(Tail(s), <<>>)
  ELSE split_colon(Tail(s), Append(cur, Head(s)))

\* strip().lower(), blanks removed, "h" replaced by ":"
normalize_time_text(t) ==
  LET nb == SelectSeq(t, LAMBDA c : c # " ")
  IN  [i \in DOMAIN nb |-> IF nb[i] \in {"h", "H"} THEN ":" ELSE nb[i]]

\* the text of _parse_time_minutes after its replacements, split on ":"
\* ("9h" reads as "9:00")
time_parts(t) ==
  LET s0 == normalize_time_text(t)
  IN  split_colon(IF s0 # <<>> /\ s0[Len(s0)] = ":" THEN s0 \o <<"0", "0">> ELSE s0, <<>>)

\* hh * 60 + mm when 0 <= hh <= 23 and 0 <= mm <= 59, else None; hh or mm is
\* None when int() raised
minutes_since_midnight(hh, mm) ==
  IF hh = None \/ mm = None THEN None
  ELSE IF 0 <= hh[1] /\ hh[1] <= 23 /\ 0 <= mm[1] /\ mm[1] <= 59
       THEN Some(hh[1] * 60 + mm[1])
  ELSE None

\* hh = int(parts[0]); mm = int(parts[1]) if there is a non-empty second part
parse_time_parts(parts) ==
  minutes_since_midnight(
    py_int(parts[1]),
    IF Len(parts) = 1 \/ parts[2] = <<>> THEN Some(0) ELSE py_int(parts[2]))

\* engine._parse_time_minutes: minutes since midnight, or None
parse_time_minutes(t) ==
  IF t = <<>> THEN None ELSE parse_time_parts(time_parts(t))

\* a variant that takes end - start whenever both parse
duration_between_unordered(start, end, a) ==
  IF start # None /\ end # None THEN end[1] - start[1]
  ELSE IF a.duree_defaut_minutes # None /\ a.duree_defaut_minutes[1] # 0
       THEN a.duree_defaut_minutes[1]
  ELSE 0

\* end - start when both parse and end > start, else the workshop's default
\* duration; duree_defaut_minutes is tested for truthiness (None and 0 give 0)
duration_between(start, end, a) ==
  IF start # None /\ end # None /\ end[1] > start[1] THEN end[1] - start[1]
  ELSE IF a.duree_defaut_minutes # None /\ a.duree_defaut_minutes[1] # 0
       THEN a.duree_defaut_minutes[1]
  ELSE 0

\* engine._session_duration_minutes
session_duration_minutes(s, a) ==
  duration_between(
    parse_time_minutes(IF s.session_type = "COLLECTIF" THEN s.heure_debut ELSE s.rdv_debut),
    parse_time_minutes(IF s.session_type = "COLLECTIF" THEN s.heure_fin ELSE s.rdv_fin),
    a)

\* ------------------------------------------------- frequency analyzer
visit_count(pres, pid) == Cardinality({ p \in pres : p.participant_id = pid })

FreqBuckets == {"1", "2-3", "4-6", "7+"}

\* A mutant of the bucket choice: three visits fall in the 4-6 bucket.
freq_bucket_shifted(n) ==
  IF n <= 1 THEN "1"
  ELSE IF n = 2 THEN "2-3"
  ELSE IF 3 <= n /\ n <= 6 THEN "4-6"
  ELSE "7+"

\* the if / elif chain of compute_participation_frequency_stats
freq_bucket(n) ==
  IF n <= 1 THEN "1"
  ELSE IF 2 <= n /\ n <= 3 THEN "2-3"
  ELSE IF 4 <= n /\ n <= 6 THEN "4-6"
  ELSE "7+"

\* engine.compute_participation_frequency_stats; freq_avg is in hundredths
\* and returning_rate in tenths of a percent.
compute_participation_frequency_stats(a, f) ==
  LET scoped == get_scoped_sessions_and_presences(a, f)
      pids == pids_of(scoped.presences)
      counts == [pid \in pids |-> visit_count(scoped.presences, pid)]
      uniques == Cardinality(pids)
      pres_total == SumOver(pids, counts)
      returning == Cardinality({ pid \in pids : counts[pid] >= 2 })
  IN  [ uniques |-> uniques,
        presences_total |-> pres_total,
        freq_avg |-> IF uniques # 0 THEN round_div(pres_total * 100, uniques) ELSE 0,
        returning |-> returning,
        returning_rate |-> IF uniques # 0 THEN round_div(returning * 1000, uniques) ELSE 0,
        regulars_4plus |-> Cardinality({ pid \in pids : counts[pid] >= 4 }),
        buckets |-> [b \in FreqBuckets |->
                       Cardinality({ pid \in pids : freq_bucket(counts[pid]) = b })] ]

compute_participation_frequency_queries(a, f) == get_scoped_queries(a, f)

\* ------------------------------------------------- occupancy analyzer
DEFAULT_COLLECTIF_CAPACITY == 12

OccBuckets == {"<50%", "50-79%", "80-99%", "100%+"}

\* a variant of the query without the condition on session_type
occupancy_sessions_any_type(f) ==
  { sid \in SessionIds :
      /\ ~sessions[sid].is_deleted
      /\ ~atelier_of(sid).is_deleted
      /\ (f.secteur # NoSecteur => sessions[sid].secteur = f.secteur)
      /\ (f.atelier_id # NoId => sessions[sid].atelier_id = f.atelier_id)
      /\ (f.date_from # NoDate => date_ge(session_date_expr(sessions[sid]), f.date_from))
      /\ (f.date_to # NoDate => date_le(session_date_expr(sessions[sid]), f.date_to)) }

\* the sessions the query of compute_occupancy_stats returns: the scope is
\* taken from flt.secteur and compared with the session's own secteur column
occupancy_sessions(f) ==
  { sid \in SessionIds :
      /\ ~sessions[sid].is_deleted
      /\ ~atelier_of(sid).is_deleted
      /\ (f.secteur # NoSecteur => sessions[sid].secteur = f.secteur)
      /\ (f.atelier_id # NoId => sessions[sid].atelier_id = f.atelier_id)
      /\ (f.date_from # NoDate => date_ge(session_date_expr(sessions[sid]), f.date_from))
      /\ (f.date_to # NoDate => date_le(session_date_expr(sessions[sid]), f.date_to))
      /\ sessions[sid].session_type = "COLLECTIF" }

\* capacity fallback of compute_occupancy_stats
occupancy_capacity(sid) ==
  LET cap == IF sessions[sid].capacite # None THEN sessions[sid].capacite
             ELSE atelier_of(sid).capacite_defaut
  IN  IF cap = None \/ cap[1] <= 0 THEN DEFAULT_COLLECTIF_CAPACITY ELSE cap[1]

session_presence_count(sid) == Cardinality({ p \in presences : p.session_id = sid })

\* a variant that puts a rate of exactly 80 % in the bucket below
occupancy_bucket_eighty_below(pres, cap) ==
  IF pres * 100 < 50 * cap THEN "<50%"
  ELSE IF pres * 100 <= 80 * cap THEN "50-79%"
  ELSE IF pres * 100 < 100 * cap THEN "80-99%"
  ELSE "100%+"

\* the bucket of a session with pres presences for cap places (pct = pres / cap * 100)
occupancy_bucket(pres, cap) ==
  IF pres * 100 < 50 * cap THEN "<50%"
  ELSE IF pres * 100 < 80 * cap THEN "50-79%"
  ELSE IF pres * 100 < 100 * cap THEN "80-99%"
  ELSE "100%+"

RECURSIVE ProductOver(_, _)
ProductOver(S, f) ==
  IF S = {} THEN 1
  ELSE LET x == CHOOSE y \in S : TRUE IN f[x] * ProductOver(S \ {x}, f)

\* round(mean of pres / cap over sids * 100, 1), in tenths of a percent
mean_fill_rate(sids) ==
  LET cap == [sid \in sids |-> occupancy_capacity(sid)]
      den == ProductOver(sids, cap)
      num == SumOver(sids, [sid \in sids |-> session_presence_count(sid) * (den \div cap[sid])])
  IN  round_div(num * 1000, den * Cardinality(sids))

\* occupancy.compute_occupancy_stats; avg_fill_rate_pct is None or tenths of
\* a percent; per_atelier is keyed by atelier id.
compute_occupancy_stats(f) ==
  LET rows == occupancy_sessions(f)
      aids == { sessions[sid].atelier_id : sid \in rows }
      of_atelier(aid) == { sid \in rows : sessions[sid].atelier_id = aid }
  IN  IF rows = {}
      THEN [ collective_sessions |-> 0,
             collective_presences |-> 0,
             avg_fill_rate_pct |-> None,
             buckets |-> [b \in OccBuckets |-> 0],
             per_atelier |-> <<>> ]
      ELSE [ collective_sessions |-> Cardinality(rows),
             collective_presences |-> Cardinality(presences_in(rows)),
             avg_fill_rate_pct |-> Some(mean_fill_rate(rows)),
             buckets |-> [b \in OccBuckets |->
                Cardinality({ sid \in rows :
                  occupancy_bucket(session_presence_count(sid), occupancy_capacity(sid)) = b })],
             per_atelier |-> [aid \in aids |->
                [ atelier_id |-> aid,
                  secteur |-> ateliers[aid].secteur,
                  sessions |-> Cardinality(of_atelier(aid)),
                  presences |-> Cardinality(presences_in(of_atelier(aid))),
                  capacity_total |-> SumOver(of_atelier(aid),
                                       [sid \in of_atelier(aid) |-> occupancy_capacity(sid)]),
                  avg_fill_rate_pct |-> mean_fill_rate(of_atelier(aid)) ]] ]

\* one query for the sessions, one for the presences when there is a session
compute_occupancy_queries(f) == 1 + (IF occupancy_sessions(f) # {} THEN 1 ELSE 0)

\* ---------------------------------------------------- volume analyzer
\* (session.statut or "").lower() != "annulee"
is_real(s) == s.statut # "annulee"

\* date.weekday(): Monday is 0; 2023-01-01 is a Sunday
weekday(d) == (d + 5) % 7

HeatBuckets == {8, 10, 12, 14, 16, 18}

\* the heatmap cell <<weekday, first hour of the bucket>> of a session that
\* starts on date sd at mins, or None
heat_cell_at(sd, mins) ==
  IF sd = NoDate \/ mins = None THEN None
  ELSE IF \E b \in HeatBuckets : b * 60 <= mins[1] /\ mins[1] < (b + 2) * 60
       THEN Some(<<weekday(sd), CHOOSE b \in HeatBuckets :
                                  b * 60 <= mins[1] /\ mins[1] < (b + 2) * 60>>)
  ELSE None

heat_cell(s) ==
  heat_cell_at(session_date_expr(s),
               parse_time_minutes(IF s.session_type = "COLLECTIF" THEN s.heure_debut
                                  ELSE s.rdv_debut))

\* cap of the per-workshop loop: session.capacite if it is not None, else
\* capacite_defaut or 0
volume_capacity(sid) ==
  IF sessions[sid].capacite # None THEN sessions[sid].capacite[1]
  ELSE IF atelier_of(sid).capacite_defaut # None THEN atelier_of(sid).capacite_defaut[1]
  ELSE 0

\* the first attendance date of a participant over the whole history
\* (first_seen_sub: presences joined with the sessions that are not deleted)
first_seen_dates(pid) ==
  { session_date_expr(sessions[p.session_id]) :
      p \in { q \in presences : q.participant_id = pid /\ ~sessions[q.session_id].is_deleted } }

set_min(S) == CHOOSE x \in S : \A y \in S : x <= y
set_max(S) == CHOOSE x \in S : \A y \in S : x >= y

count_new_participants(f) ==
  IF f.date_from = NoDate /\ f.date_to = NoDate THEN 0
  ELSE Cardinality({ pid \in ParticipantIds :
         /\ first_seen_dates(pid) \ {NoDate} # {}
         /\ LET first_date == set_min(first_seen_dates(pid) \ {NoDate})
            IN  /\ (f.date_from # NoDate => first_date >= f.date_from)
                /\ (f.date_to # NoDate => first_date <= f.date_to) })

\* hours as the code rounds them: round(minutes / 60, 2), in hundredths
hours_of(minutes) == round_div(minutes * 100, 60)

\* a variant that counts an individual session once per presence as well
people_minutes_per_head(sid, mins, count_p) == mins * count_p

\* minutes * headcount for a collective session; minutes for an individual
\* one that has a presence
people_minutes(sid, mins, count_p) ==
  IF sessions[sid].session_type = "COLLECTIF" THEN mins * count_p
  ELSE IF count_p > 0 THEN mins ELSE 0

\* presences / real_capacity * 100 rounded to one decimal (in tenths), 0.0
\* when real_capacity is 0
occupation_rate_of(n_pres, real_capacity) ==
  IF real_capacity # 0 THEN round_div(n_pres * 1000, real_capacity) ELSE 0

\* the row of a workshop from its per-session figures: mine are its sessions
\* of the window, real the ones not cancelled, timed the ones with a duration
\* above 0 (the loop skips the others before it adds capacities), mins, people
\* and cap the per-session minutes, people-minutes and capacity
atelier_row_of(aid, mine, real, timed, mins, people, cap, mypres, dates, prev) ==
  [ atelier_id |-> aid,
    secteur |-> ateliers[aid].secteur,
    sessions |-> Cardinality(mine),
    presences |-> Cardinality(mypres),
    uniques |-> Cardinality(pids_of(mypres)),
    hours_animator |-> hours_of(SumOver(timed, mins)),
    hours_people |-> hours_of(SumOver(timed, people)),
    is_new_vs_previous |-> prev # None /\ aid \notin prev[1],
    sessions_planned |-> Cardinality(mine),
    sessions_real |-> Cardinality(real),
    planned_capacity |-> SumOver(timed, cap),
    real_capacity |-> SumOver(timed \cap real, cap),
    planned_hours |-> hours_of(SumOver(timed, mins)),
    real_hours |-> hours_of(SumOver(timed \cap real, mins)),
    occupation_rate |-> occupation_rate_of(Cardinality(mypres), SumOver(timed \cap real, cap)),
    avg_per_session_real |-> IF real # {}
                             THEN round_div(Cardinality(mypres) * 100, Cardinality(real))
                             ELSE 0,
    activity_duration_days |-> IF dates = {} THEN None
                               ELSE Some(set_max(dates) - set_min(dates)) ]

\* the durations of the sessions mine of workshop aid
atelier_minutes(aid, mine) ==
  [sid \in mine |-> session_duration_minutes(sessions[sid], ateliers[aid])]

atelier_row_timed(aid, mine, mins, pres, prev) ==
  atelier_row_of(
    aid, mine,
    { sid \in mine : is_real(sessions[sid]) },
    { sid \in mine : mins[sid] > 0 },
    mins,
    [sid \in mine |->
       people_minutes(sid, mins[sid], Cardinality({ p \in pres : p.session_id = sid }))],
    [sid \in mine |-> volume_capacity(sid)],
    { p \in pres : p.session_id \in mine },
    { session_date_expr(sessions[sid]) : sid \in mine } \ {NoDate},
    prev)

atelier_row_sessions(aid, mine, pres, prev) ==
  atelier_row_timed(aid, mine, atelier_minutes(aid, mine), pres, prev)

\* the row of table_ateliers for workshop aid; rows are the session ids of
\* the window, pres the presences of these sessions, prev the workshop ids
\* of the previous window (or None)
atelier_row(aid, rows, pres, prev) ==
  atelier_row_sessions(aid, { sid \in rows : sessions[sid].atelier_id = aid }, pres, prev)

\* sort(key = (presences, sessions), reverse = True); rows with equal keys
\* keep the order of the query, taken here as the order of the ids
row_before(r1, r2) ==
  \/ r1.presences > r2.presences
  \/ r1.presences = r2.presences /\ r1.sessions > r2.sessions
  \/ r1.presences = r2.presences /\ r1.sessions = r2.sessions /\ r1.atelier_id < r2.atelier_id

RECURSIVE sort_rows(_)
sort_rows(S) ==
  IF S = {} THEN <<>>
  ELSE LET m == CHOOSE x \in S : \A y \in S \ {x} : row_before(x, y)
       IN  <<m>> \o sort_rows(S \ {m})

\* sectors_summary: the rows of table_ateliers added up by secteur
sectors_summary_of(table) ==
  LET sects == { r.secteur : r \in table }
      of(sect) == { r \in table : r.secteur = sect }
      total(sect, field) == SumOver(of(sect), [r \in of(sect) |-> r[field]])
  IN  [sect \in sects |->
        [ secteur |-> sect,
          sessions |-> total(sect, "sessions"),
          presences |-> total(sect, "presences"),
          uniques |-> total(sect, "uniques"),
          hours_animator |-> total(sect, "hours_animator"),
          hours_people |-> total(sect, "hours_people") ]]

\* a variant whose previous window starts one day earlier
previous_atelier_ids_one_day_longer(a, f) ==
  IF f.date_from # NoDate /\ f.date_to # NoDate /\ f.date_to >= f.date_from
  THEN LET span_days == (f.date_to - f.date_from) + 1
           prev_end == f.date_from - 1
           prev_start == prev_end - span_days
       IN  Some({ sessions[sid].atelier_id :
                    sid \in query_sessions_for_period(a, f, prev_start, prev_end) })
  ELSE None

\* the previous window of compute_volume_activity_stats: None, or the ids of
\* the workshops with a session in it
previous_atelier_ids(a, f) ==
  IF f.date_from # NoDate /\ f.date_to # NoDate /\ f.date_to >= f.date_from
  THEN LET span_days == (f.date_to - f.date_from) + 1
           prev_end == f.date_from - 1
           prev_start == IF span_days > 0 THEN prev_end - (span_days - 1) ELSE prev_end
       IN  Some({ sessions[sid].atelier_id :
                    sid \in query_sessions_for_period(a, f, prev_start, prev_end) })
  ELSE None

\* A mutant of the series: the uniques of a bucket are counted over the whole
\* window.
time_series_of_window_uniques(dated, pres, group_by) ==
  LET label(sid) == group_label(session_date_expr(sessions[sid]), group_by)
      in_k(k) == { sid \in dated : label(sid) = k }
      point(k) == [ label |-> k,
                    sessions |-> Cardinality(in_k(k)),
                    presences |-> Cardinality(presences_in(in_k(k)) \cap pres),
                    uniques |-> Cardinality(pids_of(pres)) ]
      sorted == sort_keys({ label(sid) : sid \in dated })
  IN  [i \in DOMAIN sorted |-> point(sorted[i])]

\* the chronological series: one point per bucket label of the dated
\* sessions, sorted by (year, bucket)
time_series_of(dated, pres, group_by) ==
  LET label(sid) == group_label(session_date_expr(sessions[sid]), group_by)
      in_k(k) == { sid \in dated : label(sid) = k }
      point(k) == [ label |-> k,
                    sessions |-> Cardinality(in_k(k)),
                    presences |-> Cardinality(presences_in(in_k(k)) \cap pres),
                    uniques |-> Cardinality(pids_of(presences_in(in_k(k)) \cap pres)) ]
      sorted == sort_keys({ label(sid) : sid \in dated })
  IN  [i \in DOMAIN sorted |-> point(sorted[i])]

\* the global KPIs of the window
volume_kpi(rows, pres, mins, people, all_dates, f) ==
  [ sessions |-> Cardinality(rows),
    presences |-> Cardinality(pres),
    uniques |-> Cardinality(pids_of(pres)),
    new_participants |-> count_new_participants(f),
    hours_animator |-> hours_of(SumOver(rows, [sid \in rows |-> Max2(mins[sid], 0)])),
    hours_people |-> hours_of(SumOver({ sid \in rows : mins[sid] > 0 }, people)),
    avg_per_session |-> IF rows # {}
                        THEN round_div(Cardinality(pres) * 100, Cardinality(rows))
                        ELSE 0,
    activity_duration_days |-> IF all_dates = {} THEN None
                               ELSE Some(set_max(all_dates) - set_min(all_dates)) ]

heatmap_of(rows) ==
  [c \in (0..6) \X HeatBuckets |->
     Cardinality({ sid \in rows : heat_cell(sessions[sid]) = Some(c) })]

volume_result(rows, pres, mins, table, prev, f) ==
  [ kpi |-> volume_kpi(
              rows, pres, mins,
              [sid \in rows |->
                 people_minutes(sid, mins[sid], Cardinality({ p \in pres : p.session_id = sid }))],
              { session_date_expr(sessions[sid]) : sid \in rows } \ {NoDate},
              f),
    time_series |-> time_series_of(
                      { sid \in rows : session_date_expr(sessions[sid]) # NoDate },
                      pres, f.group_by),
    heatmap |-> heatmap_of(rows),
    table_ateliers |-> table,
    top_ateliers |-> SubSeq(table, 1, Min2(3, Len(table))),
    sectors_summary |-> sectors_summary_of(Range(table)),
    has_previous_period |-> prev # None ]

volume_of_window(rows, pres, prev, f) ==
  volume_result(
    rows, pres,
    [sid \in rows |-> session_duration_minutes(sessions[sid], atelier_of(sid))],
    sort_rows({ atelier_row(aid, rows, pres, prev) :
                  aid \in { sessions[sid].atelier_id : sid \in rows } }),
    prev, f)

volume_of_rows(rows, prev, f) == volume_of_window(rows, presences_in(rows), prev, f)

\* engine.compute_volume_activity_stats
compute_volume_activity_stats(a, f) ==
  volume_of_rows(query_sessions_for_period(a, f, f.date_from, f.date_to),
                 previous_atelier_ids(a, f), f)

compute_volume_activity_queries(a, f) ==
  1 + (IF previous_atelier_ids(a, f) # None THEN 1 ELSE 0)
    + (IF query_sessions_for_period(a, f, f.date_from, f.date_to) # {} THEN 1 ELSE 0)
    + (IF f.date_from # NoDate \/ f.date_to # NoDate THEN 1 ELSE 0)

\* --------------------------------------------- transversality analyzer
\* a variant that looks at the attendance of every date
secteurs_by_pid_any_date(pid, f) ==
  { atelier_of(p.session_id).secteur :
      p \in { q \in presences :
                /\ q.participant_id = pid
                /\ ~sessions[q.session_id].is_deleted
                /\ ~atelier_of(q.session_id).is_deleted } }

\* the sectors in which participant pid has attendance: sessions and
\* workshops not deleted, dates within the bounds of the filter, any sector
secteurs_by_pid(pid, f) ==
  { atelier_of(p.session_id).secteur :
      p \in { q \in presences :
                /\ q.participant_id = pid
                /\ ~sessions[q.session_id].is_deleted
                /\ ~atelier_of(q.session_id).is_deleted
                /\ (f.date_from # NoDate =>
                      date_ge(session_date_expr(sessions[q.session_id]), f.date_from))
                /\ (f.date_to # NoDate =>
                      date_le(session_date_expr(sessions[q.session_id]), f.date_to)) } }

\* Counter.most_common(10): descending counts, equal counts in insertion
\* order (taken here as the order of the names)
RECURSIVE most_common(_, _)
most_common(counts, n) ==
  IF n = 0 \/ DOMAIN counts = {} THEN <<>>
  ELSE LET k == CHOOSE x \in DOMAIN counts :
                  \A y \in DOMAIN counts \ {x} : counts[x] >= counts[y]
       IN  <<[secteur |-> k, participants_communs |-> counts[k]]>>
             \o most_common([x \in DOMAIN counts \ {k} |-> counts[x]], n - 1)

\* engine.compute_transversalite_stats; multi_rate in tenths of a percent
compute_transversalite_stats(a, f) ==
  LET scoped == get_scoped_sessions_and_presences(a, f)
      scope_secteur == resolve_secteur_scope(a, f)
      scope_participants == pids_of(scoped.presences)
      multi_pids == { pid \in scope_participants : Cardinality(secteurs_by_pid(pid, f)) >= 2 }
      uniques == Cardinality(scope_participants)
      others == IF scope_secteur = NoSecteur THEN {}
                ELSE UNION { secteurs_by_pid(pid, f) \ {scope_secteur} :
                       pid \in { q \in scope_participants :
                                   scope_secteur \in secteurs_by_pid(q, f) } }
      cross_counts == [o \in others |->
                         Cardinality({ pid \in scope_participants :
                            /\ scope_secteur \in secteurs_by_pid(pid, f)
                            /\ o \in secteurs_by_pid(pid, f) })]
  IN  IF scope_participants = {}
      THEN [ scope_secteur |-> scope_secteur, uniques |-> 0, multi_count |-> 0,
             multi_rate |-> 0, top_cross |-> <<>> ]
      ELSE [ scope_secteur |-> scope_secteur,
             uniques |-> uniques,
             multi_count |-> Cardinality(multi_pids),
             multi_rate |-> round_div(Cardinality(multi_pids) * 1000, uniques),
             top_cross |-> most_common(cross_counts, 10) ]

compute_transversalite_queries(a, f) ==
  get_scoped_queries(a, f)
    + (IF get_scoped_sessions_and_presences(a, f).presences # {} THEN 1 ELSE 0)

\* ------------------------------------------------ demographic analyzer
AgeBuckets == {"0-10", "11-17", "18-25", "26-59", "60+", "Inconnu"}

\* a variant that counts a participant without birth date as a child
age_bucket_unknown_as_child(age) ==
  IF age = None THEN "0-10"
  ELSE IF age[1] <= 17 THEN (IF age[1] <= 10 THEN "0-10" ELSE "11-17")
  ELSE IF age[1] <= 25 THEN "18-25"
  ELSE IF age[1] <= 59 THEN "26-59"
  ELSE "60+"

age_bucket(age) ==
  IF age = None THEN "Inconnu"
  ELSE IF age[1] <= 10 THEN "0-10"
  ELSE IF age[1] <= 17 THEN "11-17"
  ELSE IF age[1] <= 25 THEN "18-25"
  ELSE IF age[1] <= 59 THEN "26-59"
  ELSE "60+"

\* engine.compute_demography_stats, its age figures (the other distributions
\* count the same participants by gender, city, neighbourhood and public type);
\* age_avg is None or tenths of a year, age_buckets is empty without participant
compute_demography_stats(a, f) ==
  LET scoped == get_scoped_sessions_and_presences(a, f)
      pids == pids_of(scoped.presences)
      aged == { pid \in pids : participants[pid].age # None }
  IN  IF pids = {}
      THEN [ age_avg |-> None, age_buckets |-> <<>>, participants |-> 0 ]
      ELSE [ age_avg |-> IF aged = {} THEN None
                         ELSE Some(round_div(
                                SumOver(aged, [pid \in aged |-> participants[pid].age[1]]) * 10,
                                Cardinality(aged))),
             age_buckets |-> [b \in AgeBuckets |->
                Cardinality({ pid \in pids : age_bucket(participants[pid].age) = b })],
             participants |-> Cardinality(pids) ]

compute_demography_queries(a, f) ==
  get_scoped_queries(a, f)
    + (IF get_scoped_sessions_and_presences(a, f).presences # {} THEN 1 ELSE 0)

\* --------------------------------------------------- participants list
\* order of two names (char sequences over a small alphabet)
CharRank == [c \in {"a", "b", "c"} |-> CASE c = "a" -> 1 [] c = "b" -> 2 [] c = "c" -> 3]

RECURSIVE name_lt(_, _)
name_lt(s, t) ==
  IF t = <<>> THEN FALSE
  ELSE IF s = <<>> THEN TRUE
  ELSE IF Head(s) # Head(t) THEN CharRank[Head(s)] < CharRank[Head(t)]
  ELSE name_lt(Tail(s), Tail(t))

\* order by nom, prenom; equal names in the order of the ids
participant_before(p1, p2) ==
  \/ name_lt(participants[p1].nom, participants[p2].nom)
  \/ /\ participants[p1].nom = participants[p2].nom
     /\ name_lt(participants[p1].prenom, participants[p2].prenom)
  \/ /\ participants[p1].nom = participants[p2].nom
     /\ participants[p1].prenom = participants[p2].prenom
     /\ p1 < p2

RECURSIVE sort_participants(_)
sort_participants(S) ==
  IF S = {} THEN <<>>
  ELSE LET m == CHOOSE x \in S : \A y \in S \ {x} : participant_before(x, y)
       IN  <<m>> \o sort_participants(S \ {m})

\* engine.compute_participants_stats: per participant the visits and the
\* sessions visited in the scoped window
compute_participants_stats(a, f) ==
  LET scoped == get_scoped_sessions_and_presences(a, f)
      pids == pids_of(scoped.presences)
      order == sort_participants(pids)
  IN  IF scoped.presences = {} THEN [ participants |-> <<>>, total |-> 0 ]
      ELSE [ participants |-> [i \in DOMAIN order |->
               [ id |-> order[i],
                 age |-> participants[order[i]].age,
                 visites |-> visit_count(scoped.presences, order[i]),
                 sessions |-> { p.session_id :
                                p \in { q \in scoped.presences : q.participant_id = order[i] } } ]],
             total |-> Len(order) ]

compute_participants_queries(a, f) ==
  get_scoped_queries(a, f)
    + (IF get_scoped_sessions_and_presences(a, f).presences # {} THEN 1 ELSE 0)

\* ------------------------------------------------------ matrix builder
Views == {"macro", "participants", "matrix"}

\* str.lower().strip() on the view names a request carries
lower_strip(v) ==
  CASE v = "Matrix " -> "matrix"
    [] v = " MACRO" -> "macro"
    [] OTHER -> v

\* q is a contiguous part of s (the LIKE '%q%' of the participant filter)
contains(s, q) ==
  \E i \in 0..(Len(s) - Len(q)) : SubSeq(s, i + 1, i + Len(q)) = q

\* order by the session date, then by the id
session_before(s1, s2) ==
  \/ session_date_expr(sessions[s1]) < session_date_expr(sessions[s2])
  \/ session_date_expr(sessions[s1]) = session_date_expr(sessions[s2]) /\ s1 < s2

RECURSIVE sort_sessions(_)
sort_sessions(S) ==
  IF S = {} THEN <<>>
  ELSE LET m == CHOOSE x \in S : \A y \in S \ {x} : session_before(x, y)
       IN  <<m>> \o sort_sessions(S \ {m})

\* "if max_x and max_x > 0: q = q.limit(max_x)"
limit_rows(rows, n) ==
  IF n > 0 THEN SubSeq(rows, 1, Min2(n, Len(rows))) ELSE rows

\* the macro block: counts by secteur and by workshop over the scoped sessions
magato_macro(scope) ==
  LET pres == presences_in(scope)
      sects == { atelier_of(sid).secteur : sid \in scope }
      aids == { sessions[sid].atelier_id : sid \in scope }
      in_sect(x) == { sid \in scope : atelier_of(sid).secteur = x }
      in_atelier(x) == { sid \in scope : sessions[sid].atelier_id = x }
      counts(sids) == [ nb_sessions |-> Cardinality(sids),
                        nb_presences |-> Cardinality(presences_in(sids)),
                        nb_participants_uniques |-> Cardinality(pids_of(presences_in(sids))) ]
      by_atelier == [x \in aids |-> counts(in_atelier(x))]
      total_sessions == SumOver(aids, [x \in aids |-> by_atelier[x].nb_sessions])
      total_presences == SumOver(aids, [x \in aids |-> by_atelier[x].nb_presences])
  IN  [ by_secteur |-> [x \in sects |-> counts(in_sect(x))],
        by_atelier |-> by_atelier,
        kpis |-> [ total_sessions |-> total_sessions,
                   total_presences |-> total_presences,
                   total_participants_uniques |-> Cardinality(pids_of(pres)),
                   avg_presences_per_session |->
                     IF total_sessions # 0 THEN <<total_presences, total_sessions>>
                     ELSE <<0, 1>> ] ]

\* a variant that counts the workshops attended instead of the presences
magato_participant_per_atelier(pid, scope) ==
  LET mine == { p \in presences_in(scope) : p.participant_id = pid }
      dates == { session_date_expr(sessions[p.session_id]) : p \in mine } \ {NoDate}
  IN  [ id |-> pid,
        nom |-> participants[pid].nom,
        prenom |-> participants[pid].prenom,
        nb_presences |-> Cardinality({ sessions[p.session_id].atelier_id : p \in mine }),
        first_date |-> IF dates = {} THEN NoDate ELSE set_min(dates),
        last_date |-> IF dates = {} THEN NoDate ELSE set_max(dates) ]

\* the participant rows: id, visits in the whole scoped perimeter, first and
\* last date
magato_participant(pid, scope) ==
  LET mine == { p \in presences_in(scope) : p.participant_id = pid }
      dates == { session_date_expr(sessions[p.session_id]) : p \in mine } \ {NoDate}
  IN  [ id |-> pid,
        nom |-> participants[pid].nom,
        prenom |-> participants[pid].prenom,
        nb_presences |-> Cardinality(mine),
        first_date |-> IF dates = {} THEN NoDate ELSE set_min(dates),
        last_date |-> IF dates = {} THEN NoDate ELSE set_max(dates) ]

\* the KPIs added to the macro block when the participant list is not empty
\* (rates as <<numerator, denominator>>)
magato_participant_kpis(rows, f) ==
  LET n == Len(rows)
      idx == DOMAIN rows
      sum_pres == SumOver(idx, [i \in idx |-> rows[i].nb_presences])
      returning == Cardinality({ i \in idx : rows[i].nb_presences >= 2 })
      heavy_3 == Cardinality({ i \in idx : rows[i].nb_presences >= 3 })
  IN  [ avg_sessions_per_participant |-> <<sum_pres, n>>,
        returning_participants |-> returning,
        returning_rate |-> <<returning, n>>,
        fidelite_3plus |-> heavy_3,
        fidelite_3plus_rate |-> <<heavy_3, n>>,
        new_participants |->
          IF f.date_from # NoDate /\ f.date_to # NoDate
          THEN Cardinality({ i \in idx :
                 /\ rows[i].first_date # NoDate
                 /\ f.date_from <= rows[i].first_date
                 /\ rows[i].first_date <= f.date_to })
          ELSE 0 ]

\* A mutant of the builder: the restricted scope gives an ordinary empty result.
compute_magatomatique_no_flag(a, f, participant_q, view, max_sessions, max_participants) ==
  [ restricted |-> FALSE, view |-> "macro", macro |-> magato_macro(apply_common_filters(a, f)) ]

\* engine.compute_magatomatique
compute_magatomatique(a, f, participant_q, view, max_sessions, max_participants) ==
  LET eff_secteur == resolve_secteur_scope(a, f)
      v0 == lower_strip(IF view = "" THEN "macro" ELSE view)
      v == IF v0 \in Views THEN v0 ELSE "macro"
      scope == apply_common_filters(a, f)
      macro == magato_macro(scope)
      session_ids == limit_rows(sort_sessions(scope), max_sessions)
      session_rows == [i \in DOMAIN session_ids |->
                         [ id |-> session_ids[i],
                           atelier_id |-> sessions[session_ids[i]].atelier_id,
                           secteur |-> atelier_of(session_ids[i]).secteur,
                           date |-> session_date_expr(sessions[session_ids[i]]) ]]
      matching == { pid \in pids_of(presences_in(scope)) :
                      participant_q # <<>> =>
                        \/ contains(participants[pid].nom, participant_q)
                        \/ contains(participants[pid].prenom, participant_q) }
      participant_ids == limit_rows(sort_participants(matching), max_participants)
      rows == [i \in DOMAIN participant_ids |-> magato_participant(participant_ids[i], scope)]
      macro2 == IF Len(rows) = 0 THEN macro
                ELSE [ by_secteur |-> macro.by_secteur,
                       by_atelier |-> macro.by_atelier,
                       kpis |-> macro.kpis @@ magato_participant_kpis(rows, f) ]
      limits == [max_sessions |-> max_sessions, max_participants |-> max_participants]
  IN  IF eff_secteur = RESTRICTED
      THEN [ restricted |-> TRUE, view |-> IF view = "" THEN "macro" ELSE view ]
      ELSE IF v = "macro"
      THEN [ restricted |-> FALSE, view |-> v, macro |-> macro ]
      ELSE IF v = "participants"
      THEN [ restricted |-> FALSE, view |-> v, macro |-> macro2, participants |-> rows,
             sessions |-> session_rows, limits |-> limits ]
      ELSE [ restricted |-> FALSE, view |-> "matrix", macro |-> macro2, participants |-> rows,
             sessions |-> session_rows,
             matrix |-> { <<p.participant_id, p.session_id>> :
                          p \in { q \in presences :
                                    /\ q.session_id \in Range(session_ids)
                                    /\ q.participant_id \in Range(participant_ids) } },
             limits |-> limits ]

\* the queries the builder issues: none when restricted; three aggregates for
\* the macro block; sessions, participants and counts for the lists; one more
\* for the cells when both lists are not empty
compute_magatomatique_queries(a, f, participant_q, view, max_sessions, max_participants) ==
  LET r == compute_magatomatique(a, f, participant_q, view, max_sessions, max_participants)
  IN  IF r.restricted THEN 0
      ELSE IF r.view = "macro" THEN 3
      ELSE IF r.view = "participants" THEN 6
      ELSE 6 + (IF Len(r.sessions) > 0 /\ Len(r.participants) > 0 THEN 1 ELSE 0)

\* ------------------------------------------------------------ handlers
\* rbac.can with PERM_EQUIVALENTS: any of the equivalent codes
perm_equivalents(code) ==
  CASE code = "statsimpact:view" -> {"statsimpact:view", "stats:view", "statsimpact:view_all"}
    [] code = "stats:view" -> {"stats:view", "stats:view_all"}
    [] OTHER -> {code}

can(a, code) == \E c \in perm_equivalents(code) : has_perm(a, c)

\* routes._can_view
can_view(a) == can(a, "statsimpact:view") \/ can(a, "statsimpact:view_all")

RECURSIVE strip_left(_)
strip_left(s) == IF s # <<>> /\ Head(s) = " " THEN strip_left(Tail(s)) ELSE s

RECURSIVE strip_right(_)
strip_right(s) ==
  IF s # <<>> /\ s[Len(s)] = " " THEN strip_right(SubSeq(s, 1, Len(s) - 1)) ELSE s

\* "try: int(request.args.get(name) or default) except Exception: default";
\* raw is the text of the parameter, empty when it is absent
request_int(raw, default) ==
  IF raw = <<>> THEN default
  ELSE LET v == py_int(strip_right(strip_left(raw)))
       IN  IF v = None THEN default ELSE v[1]

\* A mutant of the dashboard bounds: the wider bounds of the export.
dashboard_limits_as_export(raw_sessions, raw_participants) ==
  [ max_sessions |-> Max2(5, Min2(request_int(raw_sessions, 40), 400)),
    max_participants |-> Max2(20, Min2(request_int(raw_participants, 250), 5000)) ]

\* "bornes de securite" of the dashboard
dashboard_limits(raw_sessions, raw_participants) ==
  [ max_sessions |-> Max2(5, Min2(request_int(raw_sessions, 40), 200)),
    max_participants |-> Max2(20, Min2(request_int(raw_participants, 250), 1000)) ]

\* "bornes (export raisonnable)" of the spreadsheet export
export_limits(raw_sessions, raw_participants) ==
  [ max_sessions |-> Max2(5, Min2(request_int(raw_sessions, 40), 400)),
    max_participants |-> Max2(20, Min2(request_int(raw_participants, 250), 5000)) ]

\* date(y, m, d) as a day ordinal
RECURSIVE days_before(_, _)
days_before(y, m) ==
  IF y = 2023 /\ m = 1 THEN 0
  ELSE IF m = 1 THEN days_before(y - 1, 12) + DaysInMonth(y - 1, 12)
  ELSE days_before(y, m - 1) + DaysInMonth(y, m - 1)

date_ordinal(y, m, d) == days_before(y, m) + d

\* "Default: current year if no dates" of the dashboard
default_year(f, today) ==
  IF f.date_from = NoDate /\ f.date_to = NoDate
  THEN [f EXCEPT !.date_from = date_ordinal(date_ymd(today)[1], 1, 1),
                 !.date_to = date_ordinal(date_ymd(today)[1], 12, 31)]
  ELSE f

\* ------------------------------------------------------- the data store
\* 2024-01-01 as a day ordinal
FirstDay == 365 + 1

\* the days on which the sessions of the store take place
StoreDays == { FirstDay + DayStride * k : k \in 0..(MaxDay - 1) }

T0900 == <<"0", "9", ":", "0", "0">>
T1030 == <<"1", "0", "h", "3", "0">>

\* workshop 1 belongs to secteur A, workshop 2 to secteur B, every other
\* workshop to secteur C
SecteurOfAtelier(aid) == IF aid = 1 THEN "A" ELSE IF aid = 2 THEN "B" ELSE "C"

Atelier(aid, deleted, capacite_defaut, duree) ==
  [ secteur |-> SecteurOfAtelier(aid), is_deleted |-> deleted,
    capacite_defaut |-> capacite_defaut, duree_defaut_minutes |-> duree ]

\* a session as activite/routes.py creates it: the secteur is copied from the
\* workshop, a collective session has date_session and heure_*, an individual
\* one rdv_date and rdv_*
Session(aid, type, d, deleted, capacite, statut, debut, fin) ==
  [ atelier_id |-> aid,
    secteur |-> SecteurOfAtelier(aid),
    session_type |-> type,
    date_session |-> IF type = "COLLECTIF" THEN d ELSE NoDate,
    heure_debut |-> IF type = "COLLECTIF" THEN debut ELSE <<>>,
    heure_fin |-> IF type = "COLLECTIF" THEN fin ELSE <<>>,
    rdv_date |-> IF type = "COLLECTIF" THEN NoDate ELSE d,
    rdv_debut |-> IF type = "COLLECTIF" THEN <<>> ELSE debut,
    rdv_fin |-> IF type = "COLLECTIF" THEN <<>> ELSE fin,
    capacite |-> IF type = "COLLECTIF" THEN capacite ELSE None,
    statut |-> statut,
    is_deleted |-> deleted ]

SessionTypes == {"COLLECTIF", "INDIVIDUEL_MENSUEL"}

Presence(sid, pid) == [session_id |-> sid, participant_id |-> pid]

\* the participants: names over a small alphabet, the first one without
\* birth date
ParticipantRow(pid) ==
  [ nom |-> IF pid % 2 = 1 THEN <<"b">> ELSE <<"a", "b">>,
    prenom |-> IF pid <= 2 THEN <<"c">> ELSE <<"a">>,
    age |-> IF pid = 1 THEN None ELSE Some(8 * pid) ]

ParticipantTable == [pid \in 1..NParticipants |-> ParticipantRow(pid)]

\* ------------------------------------------------------------- requests
PermSets == { {"statsimpact:view"},
              {"statsimpact:view", "scope:all_secteurs"},
              {"statsimpact:view", "stats:view_all"},
              {"statsimpact:view_all"} }

Actors == [secteur_assigne : {NoSecteur, "A", "B"}, perms : PermSets]

Filters(secteurs, atelier_ids, froms, tos, group_bys) ==
  [ secteur : secteurs, atelier_id : atelier_ids, date_from : froms, date_to : tos,
    group_by : group_bys ]

NoReq ==
  [ view |-> "", participant_q |-> <<>>, max_sessions |-> 40, max_participants |-> 250,
    raw_max_sessions |-> <<>>, raw_max_participants |-> <<>>, tab |-> "",
    export_mode |-> "flat", today |-> FirstDay, fails |-> "" ]

\* ------------------------------------------------------------ operations
\* Each operation is one call on the request (actor, flt, req) and the store;
\* it leaves the store alone.
\* a variant of a call that deletes the presences it has read
Call_deleting_presences(name, result, nq) ==
  /\ pc = "start"
  /\ pc' = name
  /\ res' = result
  /\ queries' = nq
  /\ presences' = {}
  /\ UNCHANGED <<ateliers, sessions, participants, periodes, actor, flt, req>>

Call(name, result, nq) ==
  /\ pc = "start"
  /\ pc' = name
  /\ res' = result
  /\ queries' = nq
  /\ UNCHANGED <<ateliers, sessions, presences, participants, periodes, actor, flt, req>>

\* the result of a call is a record; the resolver's value is its field
\* eff_secteur
ResolveScope == Call("resolve", [eff_secteur |-> resolve_secteur_scope(actor, flt)], 0)

Accessor ==
  Call("accessor", get_scoped_sessions_and_presences(actor, flt), get_scoped_queries(actor, flt))

Volume ==
  Call("volume", compute_volume_activity_stats(actor, flt),
       compute_volume_activity_queries(actor, flt))

Frequency ==
  Call("frequency", compute_participation_frequency_stats(actor, flt),
       compute_participation_frequency_queries(actor, flt))

Transversalite ==
  Call("transversalite", compute_transversalite_stats(actor, flt),
       compute_transversalite_queries(actor, flt))

Demography ==
  Call("demography", compute_demography_stats(actor, flt),
       compute_demography_queries(actor, flt))

ParticipantsList ==
  Call("participants", compute_participants_stats(actor, flt),
       compute_participants_queries(actor, flt))

Occupancy ==
  Call("occupancy", compute_occupancy_stats(flt), compute_occupancy_queries(flt))

Magatomatique ==
  Call("magatomatique",
       compute_magatomatique(actor, flt, req.participant_q, req.view,
                             req.max_sessions, req.max_participants),
       compute_magatomatique_queries(actor, flt, req.participant_q, req.view,
                                     req.max_sessions, req.max_participants))

\* what the handlers pass to the matrix builder: the view after
\* strip().lower() and the limits after the bounds
magato_call(view, limits) ==
  [ view |-> lower_strip(IF view = "" THEN "macro" ELSE view),
    max_sessions |-> limits.max_sessions,
    max_participants |-> limits.max_participants ]

\* the queries of the dashboard itself: the secteurs for an actor who sees
\* them all, the workshops, the quartiers and the years
dashboard_queries(a) ==
  3 + (IF can(a, "statsimpact:view_all") \/ can(a, "scope:all_secteurs") THEN 1 ELSE 0)

\* the context the dashboard renders for a GET request: every analyzer on the
\* filter with its default year, and the matrix builder when its tab is shown
dashboard_context(a, f, r, call) ==
  [ status |-> 200,
    participants |-> compute_participants_stats(a, f),
    stats |-> compute_volume_activity_stats(a, f),
    freq |-> compute_participation_frequency_stats(a, f),
    trans |-> compute_transversalite_stats(a, f),
    demo |-> compute_demography_stats(a, f),
    occupancy |-> compute_occupancy_stats(f),
    magato_call |-> IF r.tab \in {"magato", "magatomatique"} THEN Some(call) ELSE None,
    magato |-> IF r.tab \in {"magato", "magatomatique"}
               THEN Some(compute_magatomatique(a, f, r.participant_q, call.view,
                                               call.max_sessions, call.max_participants))
               ELSE None ]

dashboard_context_queries(a, f, r, call) ==
  2 * compute_participants_queries(a, f)
    + compute_volume_activity_queries(a, f)
    + compute_participation_frequency_queries(a, f)
    + compute_transversalite_queries(a, f)
    + compute_demography_queries(a, f)
    + compute_occupancy_queries(f)
    + (IF r.tab \in {"magato", "magatomatique"}
       THEN compute_magatomatique_queries(a, f, r.participant_q, call.view,
                                          call.max_sessions, call.max_participants)
       ELSE 0)
    + dashboard_queries(a)

\* the analyzers in the order the dashboard calls them, under the names of
\* their results in the context
AnalyzerOrder == <<"participants", "stats", "freq", "trans", "demo", "occupancy">>

analyzer_queries(name, a, f) ==
  CASE name = "participants" -> compute_participants_queries(a, f)
    [] name = "stats" -> compute_volume_activity_queries(a, f)
    [] name = "freq" -> compute_participation_frequency_queries(a, f)
    [] name = "trans" -> compute_transversalite_queries(a, f)
    [] name = "demo" -> compute_demography_queries(a, f)
    [] name = "occupancy" -> compute_occupancy_queries(f)

\* the dashboard when an analyzer raises (req.fails names it): the calls are
\* in no try block, so the exception leaves the handler and the request is
\* answered with an error; queries counts those of the analyzers before
dashboard_failure(a, f, fails) ==
  [ status |-> 500, raised_in |-> fails ]

dashboard_failure_queries(a, f, fails) ==
  LET before == { i \in DOMAIN AnalyzerOrder :
                    \E j \in DOMAIN AnalyzerOrder : AnalyzerOrder[j] = fails /\ i < j }
  IN  SumOver(before, [i \in before |-> analyzer_queries(AnalyzerOrder[i], a, f)])

\* routes.dashboard, GET
Dashboard ==
  IF ~can_view(actor)
  THEN Call("dashboard", [status |-> 403], 0)
  ELSE IF req.fails # ""
  THEN Call("dashboard", dashboard_failure(actor, default_year(flt, req.today), req.fails),
            dashboard_failure_queries(actor, default_year(flt, req.today), req.fails))
  ELSE Call("dashboard",
            dashboard_context(
              actor, default_year(flt, req.today), req,
              magato_call(req.view,
                          dashboard_limits(req.raw_max_sessions, req.raw_max_participants))),
            dashboard_context_queries(
              actor, default_year(flt, req.today), req,
              magato_call(req.view,
                          dashboard_limits(req.raw_max_sessions, req.raw_max_participants))))

\* the answer of the export: one sheet per workshop in the per-workshop mode,
\* else the builder's result, refused when it is restricted
export_response(a, f, r, call) ==
  IF r.export_mode \in {"per_atelier", "per-atelier", "atelier"}
  THEN [ status |-> 200, magato_call |-> None, magato |-> None ]
  ELSE IF compute_magatomatique(a, f, r.participant_q, call.view,
                                call.max_sessions, call.max_participants).restricted
  THEN [ status |-> 403, magato_call |-> Some(call), magato |-> None ]
  ELSE [ status |-> 200,
         magato_call |-> Some(call),
         magato |-> Some(compute_magatomatique(a, f, r.participant_q, call.view,
                                               call.max_sessions, call.max_participants)) ]

export_response_queries(a, f, r, call) ==
  IF r.export_mode \in {"per_atelier", "per-atelier", "atelier"} THEN 1
  ELSE compute_magatomatique_queries(a, f, r.participant_q, call.view,
                                     call.max_sessions, call.max_participants)

\* routes.magatomatique_export
MagatomatiqueExport ==
  IF ~can_view(actor)
  THEN Call("export", [status |-> 403, magato_call |-> None, magato |-> None], 0)
  ELSE Call("export",
            export_response(
              actor, flt, req,
              magato_call(req.view,
                          export_limits(req.raw_max_sessions, req.raw_max_participants))),
            export_response_queries(
              actor, flt, req,
              magato_call(req.view,
                          export_limits(req.raw_max_sessions, req.raw_max_participants))))

\* ---------------------------------------------- scope: the analyzers
\* Two families of requests: every store with a few filters, and every
\* filter on a few stores.
ScopeAteliers ==
  { <<Atelier(1, FALSE, Some(10), None), Atelier(2, d, Some(10), None)>> : d \in BOOLEAN }

ScopeSessionRows ==
  { Session(aid, type, d, deleted, None, "realisee", T0900, T1030) :
      aid \in {1, 2}, type \in SessionTypes, d \in StoreDays, deleted \in BOOLEAN }

AllPresences == { Presence(sid, pid) : sid \in 1..NSessions, pid \in 1..NParticipants }

FilterSecteurs == {NoSecteur, "A", "B", RESTRICTED}

InitScope ==
  /\ participants = ParticipantTable
  /\ ateliers \in ScopeAteliers
  /\ \/ /\ sessions \in [1..NSessions -> ScopeSessionRows]
        /\ presences \in { AllPresences, { p \in AllPresences : p.participant_id <= p.session_id } }
        /\ actor \in { a \in Actors : a.perms \in { {"statsimpact:view"}, {"statsimpact:view_all"} } }
        /\ flt \in Filters({NoSecteur, "B"}, {NoId}, {NoDate}, {NoDate}, {"MONTH"})
     \/ /\ sessions \in { [sid \in 1..NSessions |->
                            Session(IF sid = 1 THEN 1 ELSE 2, type, FirstDay + DayStride * ((sid - 1) % MaxDay),
                                    FALSE, None, "realisee", T0900, T1030)] : type \in SessionTypes }
        /\ presences = AllPresences
        /\ actor \in Actors
        /\ flt \in Filters(FilterSecteurs, {NoId, 1, 2}, {NoDate} \cup StoreDays,
                           {NoDate} \cup StoreDays, {"MONTH"})
  /\ req = NoReq
  /\ pc = "start"
  /\ res = <<>>
  /\ queries = 0
  /\ periodes = <<>>

NextScope ==
  \/ ResolveScope
  \/ Accessor
  \/ Volume
  \/ Frequency
  \/ Transversalite
  \/ Demography
  \/ ParticipantsList
  \/ Occupancy
  \/ Magatomatique

SpecScope == InitScope /\ [][NextScope]_vars

\* ------------------------------------------- scope: what the results show
\* the actor holds one of the all-sectors capabilities
CanAll == actor.perms \cap AllSecteursCaps # {}

\* the actor has neither an all-sectors capability nor an assigned secteur
NoScopeActor == ~CanAll /\ actor.secteur_assigne = NoSecteur

\* only zero counts and empty collections, analyzer by analyzer
ZeroVolume(r) ==
  /\ r.kpi.sessions = 0 /\ r.kpi.presences = 0 /\ r.kpi.uniques = 0
  /\ r.kpi.new_participants = 0
  /\ r.kpi.hours_animator = 0 /\ r.kpi.hours_people = 0 /\ r.kpi.avg_per_session = 0
  /\ r.time_series = <<>> /\ r.table_ateliers = <<>> /\ r.top_ateliers = <<>>
  /\ DOMAIN r.sectors_summary = {}
  /\ \A c \in DOMAIN r.heatmap : r.heatmap[c] = 0

ZeroFrequency(r) ==
  /\ r.uniques = 0 /\ r.presences_total = 0 /\ r.returning = 0 /\ r.regulars_4plus = 0
  /\ \A b \in DOMAIN r.buckets : r.buckets[b] = 0

ZeroTransversalite(r) == r.uniques = 0 /\ r.multi_count = 0 /\ r.top_cross = <<>>

ZeroDemography(r) ==
  /\ r.participants = 0 /\ r.age_avg = None
  /\ \A b \in DOMAIN r.age_buckets : r.age_buckets[b] = 0

ZeroParticipants(r) == r.participants = <<>> /\ r.total = 0

ZeroOccupancy(r) ==
  /\ r.collective_sessions = 0 /\ r.collective_presences = 0
  /\ DOMAIN r.per_atelier = {}
  /\ \A b \in DOMAIN r.buckets : r.buckets[b] = 0

\* the result of the analyzer that has run is its zero result
ZeroResult ==
  /\ pc = "volume" => ZeroVolume(res)
  /\ pc = "frequency" => ZeroFrequency(res)
  /\ pc = "transversalite" => ZeroTransversalite(res)
  /\ pc = "demography" => ZeroDemography(res)
  /\ pc = "participants" => ZeroParticipants(res)
  /\ pc = "occupancy" => ZeroOccupancy(res)

\* C1: for an actor with no all-sectors capability and no assigned secteur,
\* every analyzer (volume, frequency, transversality, demography, occupancy,
\* participants list) returns only zero counts and empty collections, for
\* every filter and every store.
C1_no_scope_actor_gets_zero == NoScopeActor => ZeroResult

\* C2: the resolver returns the assigned secteur S of an actor without
\* all-sectors capability whatever the filter carries, returns "no
\* restriction" only for an actor with an all-sectors capability, and returns
\* the restricted sentinel exactly when the actor has neither.
C2_resolver_cases ==
  pc = "resolve" =>
    /\ (~CanAll /\ actor.secteur_assigne # NoSecteur) =>
         res.eff_secteur = actor.secteur_assigne
    /\ res.eff_secteur = NoSecteur => CanAll
    /\ res.eff_secteur = RESTRICTED <=> NoScopeActor

\* C3: the sessions the occupancy analyzer counts are the collective sessions
\* of the accessor's result for the same actor and filter, so an actor
\* assigned to secteur S gets no occupancy figure of a workshop of another
\* secteur.
C3_occupancy_within_accessor ==
  pc = "occupancy" =>
    /\ res.collective_sessions =
         Cardinality({ sid \in apply_common_filters(actor, flt) :
                         sessions[sid].session_type = "COLLECTIF" })
    /\ (~CanAll /\ actor.secteur_assigne # NoSecteur) =>
         \A aid \in DOMAIN res.per_atelier :
           res.per_atelier[aid].secteur = actor.secteur_assigne

\* C4: when the resolver yields the restricted sentinel, the volume,
\* frequency, transversality, demography, occupancy and matrix computations
\* return their zero result and issue no query to the store.
C4_restricted_issues_no_query ==
  ( /\ resolve_secteur_scope(actor, flt) = RESTRICTED
    /\ pc \in {"volume", "frequency", "transversalite", "demography", "occupancy",
               "magatomatique"} )
  => queries = 0 /\ ZeroResult

\* ------------------------------------------------- the matrix builder
\* Two families of calls: every actor, secteur filter and view on a few
\* stores, and every pair of limits on every store of collective sessions.
ViewInputs == {"", "macro", "participants", "matrix", "Matrix ", " MACRO", "bogus"}

\* requested limits: negative, zero, small, the default and a very large one
LimitInputs == {0 - 1, 0, 1, 2, 40, 1000000}

MatrixSessionRows ==
  { Session(aid, "COLLECTIF", d, deleted, None, "realisee", T0900, T1030) :
      aid \in {1, 2}, d \in StoreDays, deleted \in BOOLEAN }

StaggeredPresences == { p \in AllPresences : p.participant_id <= p.session_id }

MatrixReq(view, q, max_sessions, max_participants) ==
  [ NoReq EXCEPT !.view = view, !.participant_q = q, !.max_sessions = max_sessions,
                 !.max_participants = max_participants ]

InitMatrix ==
  /\ participants = ParticipantTable
  /\ ateliers = <<Atelier(1, FALSE, Some(10), None), Atelier(2, FALSE, Some(10), None)>>
  /\ \/ /\ sessions \in { [sid \in 1..NSessions |->
                            Session(IF sid = 1 THEN 1 ELSE 2, "COLLECTIF",
                                    FirstDay + DayStride * ((sid - 1) % MaxDay),
                                    deleted, None, "realisee", T0900, T1030)] :
                          deleted \in BOOLEAN }
        /\ presences = AllPresences
        /\ actor \in Actors
        /\ flt \in Filters(FilterSecteurs, {NoId}, {NoDate}, {NoDate}, {"MONTH"})
        /\ req \in { MatrixReq(view, <<>>, 40, 250) : view \in ViewInputs }
     \/ /\ sessions \in [1..NSessions -> MatrixSessionRows]
        /\ presences \in {AllPresences, StaggeredPresences}
        /\ actor \in { a \in Actors : a.perms = {"statsimpact:view_all"} /\ a.secteur_assigne = "A" }
        /\ flt \in Filters({NoSecteur}, {NoId}, {NoDate, FirstDay}, {NoDate}, {"MONTH"})
        /\ req \in { MatrixReq(view, q, ms, mp) :
                       view \in {"participants", "matrix"}, q \in {<<>>, <<"a">>},
                       ms \in LimitInputs, mp \in LimitInputs }
  /\ pc = "start"
  /\ res = <<>>
  /\ queries = 0
  /\ periodes = <<>>

NextMatrix == Magatomatique

SpecMatrix == InitMatrix /\ [][NextMatrix]_vars

\* C5: for every view and filter, the builder called for an actor whose scope
\* resolves to the restricted sentinel returns the restricted flag alone
\* (with the view), no macro, participants, sessions or matrix; for every
\* other actor the flag is false, also when no session matches.
C5_restricted_flag ==
  pc = "magatomatique" =>
    /\ res.restricted <=> resolve_secteur_scope(actor, flt) = RESTRICTED
    /\ res.restricted => DOMAIN res = {"restricted", "view"}
    /\ ~res.restricted => "macro" \in DOMAIN res

\* a restricted actor asked for the matrix of a store that has sessions
C5_witness_restricted_matrix ==
  /\ pc = "magatomatique"
  /\ NoScopeActor
  /\ req.view = "matrix"
  /\ \E sid \in SessionIds : ~sessions[sid].is_deleted
  /\ res.restricted

\* an actor with a scope asked for a window no session matches
C5_witness_empty_scope ==
  /\ pc = "magatomatique"
  /\ apply_common_filters(actor, flt) = {}
  /\ ~res.restricted

\* the bound of the dashboard on the session axis, and on the participant axis
ServerCapSessions == 200
ServerCapParticipants == 1000

\* C6: in participants or matrix mode the builder returns at most
\* min(requested max_sessions, server cap) session columns and at most
\* min(requested max_participants, server cap) participant rows, for zero,
\* negative and very large requests too.
C6_rows_and_columns_capped ==
  (pc = "magatomatique" /\ ~res.restricted /\ res.view \in {"participants", "matrix"}) =>
    /\ Len(res.sessions) <= Min2(req.max_sessions, ServerCapSessions)
    /\ Len(res.participants) <= Min2(req.max_participants, ServerCapParticipants)

\* ----------------------------------------------------------- the handlers
\* the texts a request carries for max_sessions and max_participants: absent,
\* not a number, below, at and above the bounds
RawInts ==
  { <<>>, <<"a", "b">>, <<"-", "3">>, <<"0">>, <<" ", "7", " ">>, <<"5">>, <<"2", "0">>,
    <<"2", "0", "0">>, <<"2", "0", "1">>, <<"4", "0", "0">>, <<"4", "0", "1">>,
    <<"1", "0", "0", "0">>, <<"1", "0", "0", "1">>, <<"5", "0", "0", "0">>,
    <<"5", "0", "0", "1">>, <<"9", "9", "9", "9", "9", "9", "9">> }

RouteActors ==
  { [secteur_assigne |-> "A", perms |-> {}],
    [secteur_assigne |-> "A", perms |-> {"statsimpact:view"}],
    [secteur_assigne |-> NoSecteur, perms |-> {"statsimpact:view"}],
    [secteur_assigne |-> NoSecteur, perms |-> {"statsimpact:view_all"}] }

InitRoutes ==
  /\ participants = ParticipantTable
  /\ ateliers = <<Atelier(1, FALSE, Some(10), None), Atelier(2, FALSE, Some(10), None)>>
  /\ sessions = [sid \in 1..NSessions |->
                   Session(IF sid = 1 THEN 1 ELSE 2, "COLLECTIF",
                           FirstDay + DayStride * ((sid - 1) % MaxDay),
                           FALSE, None, "realisee", T0900, T1030)]
  /\ presences = AllPresences
  /\ actor \in RouteActors
  /\ flt \in Filters({NoSecteur}, {NoId}, {NoDate}, {NoDate}, {"MONTH"})
  /\ req \in { [ NoReq EXCEPT !.raw_max_sessions = rs, !.raw_max_participants = rp,
                              !.tab = tab, !.view = "matrix", !.export_mode = mode ] :
                 rs \in RawInts, rp \in RawInts, tab \in {"base", "magato"},
                 mode \in {"flat", "per_atelier"} }
  /\ pc = "start"
  /\ res = <<>>
  /\ queries = 0
  /\ periodes = <<>>

NextRoutes ==
  \/ Dashboard
  \/ MagatomatiqueExport

SpecRoutes == InitRoutes /\ [][NextRoutes]_vars

\* the limits a handler has passed to the builder are within the given bounds
LimitsWithin(call, max_s, max_p) ==
  /\ 5 <= call.max_sessions /\ call.max_sessions <= max_s
  /\ 20 <= call.max_participants /\ call.max_participants <= max_p

CalledBuilder == pc \in {"dashboard", "export"} /\ res.status # 403 /\ res.magato_call # None

\* C7 as the spec states it: the dashboard tab and the spreadsheet export
\* both clamp max_sessions into [5,200] and max_participants into [20,1000]
\* before they call the builder, whatever the request supplies.
C7_same_bounds_on_both_paths ==
  CalledBuilder => LimitsWithin(res.magato_call[1], 200, 1000)

\* C7, amended: the dashboard tab clamps max_sessions into [5,200] and
\* max_participants into [20,1000]; the spreadsheet export clamps them into
\* [5,400] and [20,5000]; both whatever the request supplies.
C7_bounds_per_path ==
  /\ (CalledBuilder /\ pc = "dashboard") => LimitsWithin(res.magato_call[1], 200, 1000)
  /\ (CalledBuilder /\ pc = "export") => LimitsWithin(res.magato_call[1], 400, 5000)

\* the export called the builder with more than the dashboard's bounds
C7_witness_export_above_dashboard ==
  /\ CalledBuilder
  /\ pc = "export"
  /\ res.magato_call[1].max_sessions = 400
  /\ res.magato_call[1].max_participants = 5000

\* -------------------------------------------------- the volume analyzer
\* Two families of stores: every set of presences on dated sessions of one or
\* two workshops under every grouping, and every capacity, status and timing of
\* the first session of one workshop.
GroupBys == {"DAY", "MONTH", "QUARTER", "YEAR"}

\* the sessions alternate between the two workshops, or all belong to the
\* first one; the first takes place on one day and the others on another or
\* the same day
VolumeSessions ==
  { [sid \in 1..NSessions |->
       Session(IF one \/ sid % 2 = 1 THEN 1 ELSE 2, "COLLECTIF",
               IF sid = 1 THEN first ELSE other, FALSE, None,
               "realisee", T0900, T1030)] :
      one \in BOOLEAN, first \in StoreDays, other \in StoreDays }

\* each participant attended the first sessions, up to a number of their own
VolumePresences ==
  { { p \in AllPresences : p.session_id <= k[p.participant_id] } :
      k \in [1..NParticipants -> 0..NSessions] }

\* capacities as the forms store them: none, zero, negative, positive
Capacities == {None, Some(0), Some(0 - 5), Some(3)}

CapacitySessionRows ==
  { Session(1, "COLLECTIF", FirstDay, FALSE, cap, statut, t[1], t[2]) :
      cap \in Capacities, statut \in {"realisee", "annulee"},
      t \in {<<T0900, T1030>>, <<<<>>, <<>>>>} }

\* the other sessions of the workshop: with or without capacity and times
PlainSessionRows ==
  { Session(1, "COLLECTIF", FirstDay, FALSE, cap, "realisee", t[1], t[2]) :
      cap \in {None, Some(3)}, t \in {<<T0900, T1030>>, <<<<>>, <<>>>>} }

CapacityAteliers ==
  { <<Atelier(1, FALSE, cap, duree), Atelier(2, FALSE, None, None)>> :
      cap \in {None, Some(0 - 4), Some(8)}, duree \in {None, Some(0), Some(60)} }

AllSecteursActor == [secteur_assigne |-> NoSecteur, perms |-> {"statsimpact:view_all"}]

InitVolume ==
  /\ participants = ParticipantTable
  /\ \/ /\ ateliers = <<Atelier(1, FALSE, Some(10), None), Atelier(2, FALSE, Some(10), None)>>
        /\ sessions \in VolumeSessions
        /\ presences \in VolumePresences
        /\ flt \in Filters({NoSecteur}, {NoId}, {NoDate}, {NoDate}, GroupBys)
     \/ /\ ateliers \in CapacityAteliers
        /\ sessions \in { [sid \in 1..NSessions |-> IF sid = 1 THEN first ELSE other] :
                          first \in CapacitySessionRows, other \in PlainSessionRows }
        /\ presences \in {{}, StaggeredPresences, AllPresences}
        /\ flt \in Filters({NoSecteur}, {NoId}, {NoDate}, {NoDate}, {"MONTH"})
  /\ actor = AllSecteursActor
  /\ req = NoReq
  /\ pc = "start"
  /\ res = <<>>
  /\ queries = 0
  /\ periodes = <<>>

NextVolume == Volume

SpecVolume == InitVolume /\ [][NextVolume]_vars

\* C8: for every filter, actor and store, the KPI block of the volume
\* analyzer has uniques <= presences, and so has every bucket of the time
\* series and every row of table_ateliers.
C8_uniques_at_most_presences ==
  pc = "volume" =>
    /\ res.kpi.uniques <= res.kpi.presences
    /\ \A i \in DOMAIN res.time_series :
         res.time_series[i].uniques <= res.time_series[i].presences
    /\ \A i \in DOMAIN res.table_ateliers :
         res.table_ateliers[i].uniques <= res.table_ateliers[i].presences

\* two buckets and two rows, one participant seen twice in the window and
\* once in each bucket
C8_witness_repeated_participant ==
  /\ pc = "volume"
  /\ Len(res.time_series) = 2
  /\ Len(res.table_ateliers) = 2
  /\ res.kpi.uniques < res.kpi.presences
  /\ \A i \in DOMAIN res.time_series : res.time_series[i].uniques >= 1

\* C9: in every row of table_ateliers, occupation_rate is never negative, is
\* presences / real_capacity x 100 (to one decimal) when real_capacity is not
\* 0, and is exactly 0 when real_capacity is 0, also for a workshop with
\* presences and no capacity.
C9_occupation_rate ==
  pc = "volume" =>
    \A i \in DOMAIN res.table_ateliers :
      LET row == res.table_ateliers[i]
      IN  /\ row.occupation_rate >= 0
          /\ row.real_capacity # 0 =>
               row.occupation_rate = round_div(row.presences * 1000, row.real_capacity)
          /\ row.real_capacity = 0 => row.occupation_rate = 0

\* ----------------------------------------------- the frequency analyzer
\* Every participant attends the first k sessions of a run of sessions that
\* alternate between the two workshops, for every k.
NFreqSessions == 7

FreqSessions ==
  [sid \in 1..NFreqSessions |->
     Session(IF sid % 2 = 1 THEN 1 ELSE 2, "COLLECTIF", FirstDay, FALSE, None, "realisee",
             T0900, T1030)]

FreqPresences ==
  { Presence(sid, pid) : sid \in 1..NFreqSessions, pid \in 1..NParticipants }

InitFreq ==
  /\ participants = ParticipantTable
  /\ ateliers = <<Atelier(1, FALSE, Some(10), None), Atelier(2, FALSE, Some(10), None)>>
  /\ sessions = FreqSessions
  /\ presences \in { { p \in FreqPresences : p.session_id <= k[p.participant_id] } :
                       k \in [1..NParticipants -> 0..NFreqSessions] }
  /\ actor \in { AllSecteursActor, [secteur_assigne |-> "A", perms |-> {"statsimpact:view"}] }
  /\ flt \in Filters({NoSecteur}, {NoId, 2}, {NoDate}, {NoDate}, {"MONTH"})
  /\ req = NoReq
  /\ pc = "start"
  /\ res = <<>>
  /\ queries = 0
  /\ periodes = <<>>

NextFreq == Frequency

SpecFreq == InitFreq /\ [][NextFreq]_vars

\* the visits of a participant in the window the accessor gives
VisitsInWindow(pid) ==
  Cardinality({ p \in get_scoped_sessions_and_presences(actor, flt).presences :
                  p.participant_id = pid })

\* the visit counts a bucket stands for
InBucket(b, n) ==
  CASE b = "1" -> n = 1
    [] b = "2-3" -> 2 <= n /\ n <= 3
    [] b = "4-6" -> 4 <= n /\ n <= 6
    [] b = "7+" -> n >= 7

\* C10: the four frequency buckets (1, 2-3, 4-6, 7+) partition the
\* participants seen in the window by their visit count: each bucket counts
\* the participants whose visits are in its range, and the counts sum to the
\* returned uniques.
C10_buckets_partition ==
  pc = "frequency" =>
    /\ DOMAIN res.buckets = FreqBuckets
    /\ \A b \in FreqBuckets :
         res.buckets[b] =
           Cardinality({ pid \in ParticipantIds :
                           VisitsInWindow(pid) >= 1 /\ InBucket(b, VisitsInWindow(pid)) })
    /\ res.buckets["1"] + res.buckets["2-3"] + res.buckets["4-6"] + res.buckets["7+"]
         = res.uniques
    /\ res.uniques = Cardinality({ pid \in ParticipantIds : VisitsInWindow(pid) >= 1 })

\* one participant with seven visits and one with four
C10_witness_seven_and_four ==
  /\ pc = "frequency"
  /\ res.uniques = 2
  /\ res.buckets["7+"] = 1
  /\ res.buckets["4-6"] = 1

\* ------------------------------------------------ demography: the ages
\* Participant.age: the whole years between the birth date and today, None
\* without birth date; dates are <<year, month, day>>
participant_age(date_naissance, today) ==
  IF date_naissance = None THEN None
  ELSE LET years == today[1] - date_naissance[1]
       IN  IF tuple_lt(<<today[2], today[3]>>, <<date_naissance[2], date_naissance[3]>>)
           THEN Some(years - 1)
           ELSE Some(years)

\* the day of the request
Today == <<2024, 6, 15>>

\* birth dates on both sides of every limit between two age buckets, the day
\* of the request, a date after it, and none
BirthDates ==
  { None, <<2024, 6, 15>>, <<2025, 1, 1>>, <<2013, 6, 16>>, <<2013, 6, 15>>,
    <<2006, 6, 16>>, <<2006, 6, 15>>, <<1998, 6, 16>>, <<1998, 6, 15>>,
    <<1964, 6, 16>>, <<1964, 6, 15>> }

DemographyParticipant(pid, date_naissance) ==
  [ nom |-> ParticipantRow(pid).nom, prenom |-> ParticipantRow(pid).prenom,
    age |-> participant_age(date_naissance, Today) ]

\* the first participant has any birth date, each other one none or one of
\* an adult
DemographyParticipants ==
  { [pid \in 1..NParticipants |->
       DemographyParticipant(pid, IF pid = 1 THEN first ELSE others[pid])] :
      first \in BirthDates, others \in [1..NParticipants -> {None, <<1990, 1, 1>>}] }

InitDemography ==
  /\ participants \in DemographyParticipants
  /\ ateliers = <<Atelier(1, FALSE, Some(10), None), Atelier(2, FALSE, Some(10), None)>>
  /\ sessions = [sid \in 1..NSessions |->
                   Session(IF sid % 2 = 1 THEN 1 ELSE 2, "COLLECTIF",
                           FirstDay + DayStride * ((sid - 1) % MaxDay), FALSE, None,
                           "realisee", T0900, T1030)]
  /\ presences \in VolumePresences
  /\ actor \in { AllSecteursActor, [secteur_assigne |-> "A", perms |-> {"statsimpact:view"}] }
  /\ flt \in Filters({NoSecteur}, {NoId}, {NoDate, FirstDay + DayStride}, {NoDate}, {"MONTH"})
  /\ req = NoReq
  /\ pc = "start"
  /\ res = <<>>
  /\ queries = 0
  /\ periodes = <<>>

NextDemography == Demography

SpecDemography == InitDemography /\ [][NextDemography]_vars

\* the participants with an attendance in the filtered window
WindowParticipants == pids_of(presences_in(apply_common_filters(actor, flt)))

\* the ages a bucket stands for
InAgeBucket(b, age) ==
  CASE b = "Inconnu" -> age = None
    [] b = "0-10" -> age # None /\ age[1] <= 10
    [] b = "11-17" -> age # None /\ 11 <= age[1] /\ age[1] <= 17
    [] b = "18-25" -> age # None /\ 18 <= age[1] /\ age[1] <= 25
    [] b = "26-59" -> age # None /\ 26 <= age[1] /\ age[1] <= 59
    [] b = "60+" -> age # None /\ age[1] >= 60

WindowAged == { pid \in WindowParticipants : participants[pid].age # None }

\* C11: the age buckets of the demographic analyzer sum to the number of
\* distinct participants with an attendance in the filtered window; each
\* bucket counts the participants of its ages, a participant without birth
\* date is in the unknown bucket only, and the average age is taken over the
\* participants with a birth date.
C11_age_buckets_partition ==
  pc = "demography" =>
    /\ SumOver(DOMAIN res.age_buckets, res.age_buckets) = Cardinality(WindowParticipants)
    /\ WindowParticipants # {} =>
         /\ DOMAIN res.age_buckets = AgeBuckets
         /\ \A b \in AgeBuckets :
              res.age_buckets[b] =
                Cardinality({ pid \in WindowParticipants :
                                InAgeBucket(b, participants[pid].age) })
    /\ res.age_avg =
         IF WindowAged = {} THEN None
         ELSE Some(round_div(
                10 * SumOver(WindowAged, [pid \in WindowAged |-> participants[pid].age[1]]),
                Cardinality(WindowAged)))

\* a participant without birth date and one aged 60 in the window
C11_witness_unknown_and_aged ==
  /\ pc = "demography"
  /\ Cardinality(WindowParticipants) = 2
  /\ res.age_buckets["Inconnu"] = 1
  /\ res.age_buckets["60+"] = 1
  /\ res.age_avg = Some(600)

\* --------------------------------------- occupancy: collective sessions
\* Two families of stores: sessions of both types, deleted or not, in two
\* workshops; and collective sessions of one workshop of capacity 10, with or
\* without a capacity of their own, and up to NOccParticipants presences.
NOccParticipants == 12

OccupancySessions ==
  { [sid \in 1..NSessions |->
       Session(IF sid % 2 = 1 THEN 1 ELSE 2, type[sid],
               FirstDay + DayStride * ((sid - 1) % MaxDay),
               sid = 1 /\ deleted, None, "realisee", T0900, T1030)] :
      type \in [1..NSessions -> SessionTypes], deleted \in BOOLEAN }

FillSessions ==
  { [sid \in 1..NSessions |->
       Session(1, "COLLECTIF", FirstDay, FALSE, cap[sid], "realisee", T0900, T1030)] :
      cap \in [1..NSessions -> {None, Some(5)}] }

\* the numbers of presences of a session
FillCounts == {0, 4, 5, 7, 8, 10, NOccParticipants}

FillPresences ==
  { { p \in { Presence(sid, pid) : sid \in 1..NSessions, pid \in 1..NOccParticipants } :
          p.participant_id <= k[p.session_id] } :
      k \in [1..NSessions -> FillCounts] }

\* collective sessions of workshop 1 whose first has any capacite a form can
\* store (int(capacite) if capacite else None: "0" and "-5" are stored)
FallbackSessions ==
  { [sid \in 1..NSessions |->
       Session(1, "COLLECTIF", FirstDay, FALSE, IF sid = 1 THEN cap ELSE None,
               "realisee", T0900, T1030)] :
      cap \in Capacities }

InitOccupancy ==
  /\ \/ /\ participants = ParticipantTable
        /\ sessions \in OccupancySessions
        /\ ateliers = <<Atelier(1, FALSE, Some(10), None), Atelier(2, FALSE, Some(10), None)>>
        /\ presences \in VolumePresences
        /\ flt \in Filters({NoSecteur, "A"}, {NoId}, {NoDate, FirstDay + DayStride}, {NoDate},
                           {"MONTH"})
     \/ /\ participants = [pid \in 1..NOccParticipants |-> ParticipantRow(pid)]
        /\ sessions \in FillSessions
        /\ presences \in FillPresences
        /\ flt \in Filters({NoSecteur}, {NoId}, {NoDate}, {NoDate}, {"MONTH"})
        /\ ateliers = <<Atelier(1, FALSE, Some(10), None), Atelier(2, FALSE, Some(10), None)>>
     \/ /\ participants = ParticipantTable
        /\ sessions \in FallbackSessions
        /\ presences \in {{}, AllPresences}
        /\ flt \in Filters({NoSecteur}, {NoId}, {NoDate}, {NoDate}, {"MONTH"})
        /\ ateliers \in CapacityAteliers
  /\ actor = AllSecteursActor
  /\ req = NoReq
  /\ pc = "start"
  /\ res = <<>>
  /\ queries = 0
  /\ periodes = <<>>

NextOccupancy == Occupancy

SpecOccupancy == InitOccupancy /\ [][NextOccupancy]_vars

\* the sessions of the filter, of any type: not deleted, of a workshop not
\* deleted, of the filter's secteur and workshop, within its dates
FilterSessions ==
  { sid \in SessionIds :
      /\ ~sessions[sid].is_deleted
      /\ ~atelier_of(sid).is_deleted
      /\ flt.secteur \in {NoSecteur, sessions[sid].secteur}
      /\ flt.atelier_id \in {NoId, sessions[sid].atelier_id}
      /\ flt.date_from # NoDate => date_ge(session_date_expr(sessions[sid]), flt.date_from)
      /\ flt.date_to # NoDate => date_le(session_date_expr(sessions[sid]), flt.date_to) }

FilterCollectifs == { sid \in FilterSessions : sessions[sid].session_type = "COLLECTIF" }

\* C12: the figures of the occupancy analyzer count the COLLECTIF sessions of
\* the filter only: collective_sessions and the buckets count them,
\* collective_presences counts their presences, there is an average only when
\* there is one, and per_atelier has a row for each workshop that has one,
\* with its COLLECTIF sessions and their presences.
C12_only_collectif_sessions ==
  pc = "occupancy" =>
    /\ res.collective_sessions = Cardinality(FilterCollectifs)
    /\ res.collective_presences = Cardinality(presences_in(FilterCollectifs))
    /\ SumOver(OccBuckets, res.buckets) = Cardinality(FilterCollectifs)
    /\ (res.avg_fill_rate_pct = None) = (FilterCollectifs = {})
    /\ DOMAIN res.per_atelier = { sessions[sid].atelier_id : sid \in FilterCollectifs }
    /\ \A aid \in DOMAIN res.per_atelier :
         LET mine == { sid \in FilterCollectifs : sessions[sid].atelier_id = aid }
         IN  /\ res.per_atelier[aid].sessions = Cardinality(mine)
             /\ res.per_atelier[aid].presences = Cardinality(presences_in(mine))

\* a collective session and an individual one in the filter, both with
\* presences
C12_witness_individual_left_out ==
  /\ pc = "occupancy"
  /\ res.collective_sessions = 1
  /\ Cardinality(FilterSessions) = 2
  /\ presences_in(FilterSessions \ FilterCollectifs) # {}
  /\ res.collective_presences < Cardinality(presences_in(FilterSessions))

\* ------------------------------------------------------ preset resolution
\* (preset or "").upper().strip() on the preset texts a request carries
upper_strip(p) ==
  CASE p = "this_month " -> "THIS_MONTH"
    [] p = " Prev_Quarter" -> "PREV_QUARTER"
    [] OTHER -> p

\* a variant of month_end that takes every month for one of 30 days
month_end_thirtieth(y, m) == date_ordinal(y, m, 30)

\* "next_month = first.replace(day=28) + timedelta(days=4);
\*  end = next_month - timedelta(days=next_month.day)" for the month m of y
month_end(y, m) ==
  LET next_month == date_ordinal(y, m, 28) + 4
  IN  next_month - date_ymd(next_month)[3]

\* the quarter that starts with start_month
quarter_bounds(y, start_month) ==
  <<date_ordinal(y, start_month, 1), month_end(y, start_month + 2)>>

\* engine._apply_preset: <<date_from, date_to>> as day ordinals
apply_preset(preset, today) ==
  LET p == upper_strip(preset)
      t == date_ymd(today)
      q == (t[2] - 1) \div 3 + 1
  IN  IF p = "TODAY" THEN <<today, today>>
      ELSE IF p = "YESTERDAY" THEN <<today - 1, today - 1>>
      ELSE IF p \in {"THIS_MONTH", "MONTH_THIS"}
        THEN <<date_ordinal(t[1], t[2], 1), month_end(t[1], t[2])>>
      ELSE IF p \in {"PREV_MONTH", "MONTH_PREV", "LAST_MONTH"}
        THEN LET end_prev == date_ordinal(t[1], t[2], 1) - 1
             IN  <<date_ordinal(date_ymd(end_prev)[1], date_ymd(end_prev)[2], 1), end_prev>>
      ELSE IF p \in {"THIS_YEAR", "YEAR_THIS"}
        THEN <<date_ordinal(t[1], 1, 1), date_ordinal(t[1], 12, 31)>>
      ELSE IF p \in {"PREV_YEAR", "YEAR_PREV", "LAST_YEAR"}
        THEN <<date_ordinal(t[1] - 1, 1, 1), date_ordinal(t[1] - 1, 12, 31)>>
      ELSE IF p \in {"THIS_QUARTER", "QUARTER_THIS"}
        THEN quarter_bounds(t[1], (q - 1) * 3 + 1)
      ELSE IF p \in {"PREV_QUARTER", "QUARTER_PREV", "LAST_QUARTER"}
        THEN IF q - 1 <= 0 THEN quarter_bounds(t[1] - 1, 10)
             ELSE quarter_bounds(t[1], (q - 2) * 3 + 1)
      ELSE <<today, today>>

Presets ==
  { "TODAY", "YESTERDAY", "THIS_MONTH", "MONTH_THIS", "this_month ", "PREV_MONTH",
    "MONTH_PREV", "LAST_MONTH", "THIS_YEAR", "YEAR_THIS", "PREV_YEAR", "YEAR_PREV",
    "LAST_YEAR", "THIS_QUARTER", "QUARTER_THIS", "PREV_QUARTER", " Prev_Quarter",
    "QUARTER_PREV", "LAST_QUARTER", "NEXT_WEEK" }

\* every day from 2024-01-01 to 2025-12-31: a leap year and a common one
Todays == date_ordinal(2024, 1, 1)..date_ordinal(2025, 12, 31)

\* _apply_preset(preset, today)
ApplyPreset ==
  LET pair == apply_preset(req.preset, req.today)
  IN  Call("preset", [date_from |-> pair[1], date_to |-> pair[2]], 0)

InitPreset ==
  /\ participants = ParticipantTable
  /\ ateliers = <<Atelier(1, FALSE, None, None)>>
  /\ sessions = <<>>
  /\ presences = {}
  /\ actor = AllSecteursActor
  /\ flt \in Filters({NoSecteur}, {NoId}, {NoDate}, {NoDate}, {"MONTH"})
  /\ req \in [preset : Presets, today : Todays]
  /\ pc = "start"
  /\ res = <<>>
  /\ queries = 0
  /\ periodes = <<>>

NextPreset == ApplyPreset

SpecPreset == InitPreset /\ [][NextPreset]_vars

\* d is the first day of its month, the last day of its month
IsMonthStart(d) == date_ymd(d)[3] = 1
IsMonthEnd(d) == date_ymd(d + 1)[3] = 1

SameMonth(d, e) == date_ymd(d)[1] = date_ymd(e)[1] /\ date_ymd(d)[2] = date_ymd(e)[2]

PresetIs(names) == upper_strip(req.preset) \in names

\* C13: THIS_MONTH is the first and the last calendar day of today's month;
\* THIS_QUARTER and PREV_QUARTER are the first day of the quarter's first
\* month and the last day of its third month, for the quarter of today and
\* the one before; PREV_MONTH is the whole month that ends the day before
\* THIS_MONTH starts; the same preset and today give the same pair, and
\* start <= end for every preset.
C13_preset_bounds ==
  pc = "preset" =>
    /\ res.date_from <= res.date_to
    /\ <<res.date_from, res.date_to>> = apply_preset(req.preset, req.today)
    /\ PresetIs({"THIS_MONTH", "MONTH_THIS"}) =>
         /\ IsMonthStart(res.date_from) /\ IsMonthEnd(res.date_to)
         /\ SameMonth(res.date_from, req.today) /\ SameMonth(res.date_to, req.today)
         /\ res.date_to - res.date_from + 1
              = DaysInMonth(date_ymd(req.today)[1], date_ymd(req.today)[2])
    /\ PresetIs({"PREV_MONTH", "MONTH_PREV", "LAST_MONTH"}) =>
         /\ IsMonthStart(res.date_from) /\ SameMonth(res.date_from, res.date_to)
         /\ res.date_to + 1 = apply_preset("THIS_MONTH", req.today)[1]
    /\ PresetIs({"THIS_QUARTER", "QUARTER_THIS"}) =>
         /\ IsMonthStart(res.date_from) /\ IsMonthEnd(res.date_to)
         /\ date_ymd(res.date_from)[2] \in {1, 4, 7, 10}
         /\ date_ymd(res.date_to) = <<date_ymd(res.date_from)[1],
                                      date_ymd(res.date_from)[2] + 2,
                                      date_ymd(res.date_to)[3]>>
         /\ res.date_from <= req.today /\ req.today <= res.date_to
    /\ PresetIs({"PREV_QUARTER", "QUARTER_PREV", "LAST_QUARTER"}) =>
         /\ IsMonthStart(res.date_from) /\ IsMonthEnd(res.date_to)
         /\ date_ymd(res.date_from)[2] \in {1, 4, 7, 10}
         /\ date_ymd(res.date_to) = <<date_ymd(res.date_from)[1],
                                      date_ymd(res.date_from)[2] + 2,
                                      date_ymd(res.date_to)[3]>>
         /\ res.date_to + 1 = apply_preset("THIS_QUARTER", req.today)[1]

\* THIS_MONTH asked on a day of February 2024: the 1st to the 29th
C13_witness_leap_february ==
  /\ pc = "preset"
  /\ PresetIs({"THIS_MONTH"})
  /\ date_ymd(req.today) = <<2024, 2, 10>>
  /\ date_ymd(res.date_from) = <<2024, 2, 1>>
  /\ date_ymd(res.date_to) = <<2024, 2, 29>>

\* ------------------------------------------------- occupancy: fill rates
\* the rate pres / cap, as a percentage, is in the range of bucket b
InOccBucket(b, pres, cap) ==
  CASE b = "<50%" -> 100 * pres < 50 * cap
    [] b = "50-79%" -> 50 * cap <= 100 * pres /\ 100 * pres < 80 * cap
    [] b = "80-99%" -> 80 * cap <= 100 * pres /\ 100 * pres < 100 * cap
    [] b = "100%+" -> 100 * cap <= 100 * pres

\* tenths is the mean of the rates pres / cap of the sessions sids, as a
\* percentage rounded to one decimal: it is at most half a tenth away
IsMeanRate(tenths, sids) ==
  LET cap == [sid \in sids |-> occupancy_capacity(sid)]
      den == ProductOver(sids, cap)
      num == SumOver(sids, [sid \in sids |-> session_presence_count(sid) * (den \div cap[sid])])
      n == Cardinality(sids)
      diff == tenths * den * n - 1000 * num
  IN  2 * diff <= den * n /\ 0 - 2 * diff <= den * n

\* C14: the average fill rate is the mean over the collective sessions of
\* presences / effective capacity, x 100; every session is in exactly one of
\* the buckets below 50 %, 50 to below 80 %, 80 to below 100 % (80 % itself
\* included) and 100 % or more.
C14_fill_rates_and_buckets ==
  pc = "occupancy" /\ FilterCollectifs # {} =>
    /\ res.avg_fill_rate_pct # None
    /\ IsMeanRate(res.avg_fill_rate_pct[1], FilterCollectifs)
    /\ DOMAIN res.buckets = OccBuckets
    /\ \A b \in OccBuckets :
         res.buckets[b] =
           Cardinality({ sid \in FilterCollectifs :
                           InOccBucket(b, session_presence_count(sid), occupancy_capacity(sid)) })
    /\ SumOver(OccBuckets, res.buckets) = Cardinality(FilterCollectifs)

\* two sessions without capacity of a workshop of capacity 10, with 8 and 12
\* presences: average 100.0, one session in 80-99% and one in 100%+
C14_witness_eight_and_twelve ==
  /\ pc = "occupancy"
  /\ \A sid \in SessionIds : sessions[sid].capacite = None /\ atelier_of(sid).capacite_defaut = Some(10)
  /\ { session_presence_count(sid) : sid \in SessionIds } = {8, 12}
  /\ Cardinality(SessionIds) = 2
  /\ res.avg_fill_rate_pct = Some(1000)
  /\ res.buckets["80-99%"] = 1
  /\ res.buckets["100%+"] = 1

\* ------------------------------------------- transversality: the sectors
\* Three workshops of three sectors; session sid belongs to workshop
\* ((sid - 1) % 3) + 1 and takes place on the first day of month sid of 2024;
\* the second session or the third workshop may be deleted.
NTransSessions == 3

TransStores ==
  { [ ateliers |-> <<Atelier(1, FALSE, None, None), Atelier(2, FALSE, None, None),
                     Atelier(3, del = "atelier", None, None)>>,
      sessions |-> [sid \in 1..NTransSessions |->
                      Session(((sid - 1) % 3) + 1, "COLLECTIF", date_ordinal(2024, sid, 1),
                              sid = 2 /\ del = "session", None, "realisee", T0900, T1030)] ] :
      del \in {"none", "session", "atelier"} }

TransPresences ==
  SUBSET { Presence(sid, pid) : sid \in 1..NTransSessions, pid \in 1..NParticipants }

InitTransversalite ==
  /\ participants = ParticipantTable
  /\ \E st \in TransStores : ateliers = st.ateliers /\ sessions = st.sessions
  /\ presences \in TransPresences
  /\ actor \in { AllSecteursActor,
                 [secteur_assigne |-> "A", perms |-> {"statsimpact:view"}],
                 [secteur_assigne |-> "B", perms |-> {"statsimpact:view"}] }
  /\ flt \in Filters({NoSecteur, "A"}, {NoId}, {NoDate},
                     {NoDate, date_ordinal(2024, 2, 15)}, {"MONTH"})
  /\ req = NoReq
  /\ pc = "start"
  /\ res = <<>>
  /\ queries = 0
  /\ periodes = <<>>

NextTransversalite == Transversalite

SpecTransversalite == InitTransversalite /\ [][NextTransversalite]_vars

\* the sectors of the attendance of pid, over the sessions not deleted of
\* workshops not deleted of every sector, within the dates of the filter
SectorsAttended(pid) ==
  { ateliers[sessions[sid].atelier_id].secteur :
      sid \in { x \in SessionIds :
                  /\ Presence(x, pid) \in presences
                  /\ ~sessions[x].is_deleted
                  /\ ~ateliers[sessions[x].atelier_id].is_deleted
                  /\ flt.date_from # NoDate => date_ge(session_date_expr(sessions[x]), flt.date_from)
                  /\ flt.date_to # NoDate => date_le(session_date_expr(sessions[x]), flt.date_to) } }

\* the participants of the window who attended both sectors
CommonParticipants(h, x) ==
  { pid \in WindowParticipants : h \in SectorsAttended(pid) /\ x \in SectorsAttended(pid) }

\* C15: multi_count counts the participants of the scoped window with
\* attendance in at least 2 distinct sectors, over the sessions not deleted of
\* workshops not deleted of all sectors within the date bounds; with a resolved
\* scope H, top_cross holds for each other sector X with a common participant
\* the number of participants of H who also attended X, by descending count,
\* with at most 10 entries and never H.
C15_multi_count_and_top_cross ==
  pc = "transversalite" =>
    /\ res.multi_count =
         Cardinality({ pid \in WindowParticipants : Cardinality(SectorsAttended(pid)) >= 2 })
    /\ res.scope_secteur = resolve_secteur_scope(actor, flt)
    /\ Len(res.top_cross) <= 10
    /\ res.scope_secteur # NoSecteur =>
         /\ { res.top_cross[i].secteur : i \in DOMAIN res.top_cross }
              = { x \in {"A", "B", "C"} \ {res.scope_secteur} :
                    CommonParticipants(res.scope_secteur, x) # {} }
         /\ \A i \in DOMAIN res.top_cross :
              /\ res.top_cross[i].secteur # res.scope_secteur
              /\ res.top_cross[i].participants_communs
                   = Cardinality(CommonParticipants(res.scope_secteur, res.top_cross[i].secteur))
         /\ \A i, j \in DOMAIN res.top_cross :
              i < j => /\ res.top_cross[i].participants_communs
                            >= res.top_cross[j].participants_communs
                       /\ res.top_cross[i].secteur # res.top_cross[j].secteur

\* home sector A, no date bound: both participants attended A and B, one of
\* them C as well
C15_witness_ranked_cross ==
  /\ pc = "transversalite"
  /\ actor.secteur_assigne = "A" /\ ~CanAll
  /\ flt.date_to = NoDate
  /\ res.multi_count = 2
  /\ Len(res.top_cross) = 2
  /\ res.top_cross[1] = [secteur |-> "B", participants_communs |-> 2]
  /\ res.top_cross[2] = [secteur |-> "C", participants_communs |-> 1]

\* ------------------------------------------------- no session in the window
\* no session matches the filter for the actor
NoSessionMatches == apply_common_filters(actor, flt) = {}

\* C16: when no session matches the filter for the current actor, whatever
\* else the store contains, every analyzer returns a result whose numeric
\* aggregates are all zero, and the volume analyzer's time_series and
\* table_ateliers are empty.
C16_no_match_gives_zero == NoSessionMatches => ZeroResult

\* ------------------------------------------------------ filter normalizer
\* str.split("-")
RECURSIVE split_dash(_, _)
split_dash(s, cur) ==
  IF s = <<>> THEN <<cur>>
  ELSE IF Head(s) = "-" THEN <<cur>> \o split_dash(Tail(s), <<>>)
  ELSE split_dash(Tail(s), Append(cur, Head(s)))

AllDigits(s) == \A i \in DOMAIN s : IsDigit(s[i])

\* the fields of strptime's "%Y-%m-%d": four digits, then one or two digits
\* for a month from 1 to 12 and for a day from 1 to 31
date_fields_ok(parts) ==
  /\ Len(parts) = 3
  /\ Len(parts[1]) = 4 /\ AllDigits(parts[1])
  /\ Len(parts[2]) \in {1, 2} /\ AllDigits(parts[2]) /\ digits_value(parts[2], 0) \in 1..12
  /\ Len(parts[3]) \in {1, 2} /\ AllDigits(parts[3]) /\ digits_value(parts[3], 0) \in 1..31

\* date(y, m, d), NoDate when it raises ValueError (the years are those of
\* the calendar of the model)
date_or_none(y, m, d) ==
  IF y >= 1 /\ d <= DaysInMonth(y, m) THEN date_ordinal(y, m, d) ELSE NoDate

\* engine._parse_date: datetime.strptime(s, "%Y-%m-%d").date(), None on any
\* exception
parse_date(s) ==
  IF date_fields_ok(split_dash(s, <<>>))
  THEN date_or_none(digits_value(split_dash(s, <<>>)[1], 0),
                    digits_value(split_dash(s, <<>>)[2], 0),
                    digits_value(split_dash(s, <<>>)[3], 0))
  ELSE NoDate

\* "int(v) if v not in (None, "", "None") else None": the value, None, or
\* the ValueError of int()
request_id(v) ==
  IF v = <<>> \/ v = <<"N", "o", "n", "e">> THEN [raised |-> FALSE, value |-> None]
  ELSE [raised |-> py_int(strip_right(strip_left(v))) = None,
        value |-> py_int(strip_right(strip_left(v)))]

\* "x or None" on an optional integer
id_or_none(value) == IF value = None THEN NoId ELSE value[1]

\* str.upper() on the group_by texts a request carries
upper(g) ==
  CASE g = "day" -> "DAY"
    [] g = "Quarter" -> "QUARTER"
    [] g = "month" -> "MONTH"
    [] OTHER -> g

\* a variant in which the preset comes before the stored period
normalize_bounds_preset_first(df, dt, periode_id, preset, today) ==
  IF df # NoDate \/ dt # NoDate THEN <<df, dt>>
  ELSE IF preset # "" THEN apply_preset(preset, today)
  ELSE IF periode_id # NoId /\ periode_id \in DOMAIN periodes
    THEN <<periodes[periode_id].date_debut, periodes[periode_id].date_fin>>
  ELSE <<df, dt>>

\* the bounds of normalize_filters from the parsed dates df and dt: the
\* stored period, then the preset, when both are None
normalize_bounds(df, dt, periode_id, preset, today) ==
  IF df # NoDate \/ dt # NoDate THEN <<df, dt>>
  ELSE IF periode_id # NoId /\ periode_id \in DOMAIN periodes
    THEN <<periodes[periode_id].date_debut, periodes[periode_id].date_fin>>
  ELSE IF preset # "" THEN apply_preset(preset, today)
  ELSE <<df, dt>>

\* the record normalize_filters returns
normalized(secteur, atelier_id, periode_id, preset, group_by, bounds) ==
  [ raised |-> FALSE,
    flt |-> [ secteur |-> secteur, atelier_id |-> atelier_id, date_from |-> bounds[1],
              date_to |-> bounds[2], preset |-> preset, group_by |-> group_by,
              periode_id |-> periode_id ] ]

\* engine.normalize_filters(args): args maps the names of the request
\* parameters to their texts (empty when absent); today is date.today()
normalize_filters(args, today) ==
  LET atelier_id == request_id(IF args.atelier_id # <<>> THEN args.atelier_id ELSE args.atelier)
      periode_id == request_id(IF args.periode_id # <<>> THEN args.periode_id ELSE args.periode)
  IN  IF atelier_id.raised \/ periode_id.raised
      THEN [ raised |-> TRUE, error |-> "ValueError" ]
      ELSE normalized(IF args.secteur # "" THEN args.secteur ELSE args.sector,
                      id_or_none(atelier_id.value), id_or_none(periode_id.value),
                      args.preset,
                      upper(IF args.group_by # "" THEN args.group_by ELSE "MONTH"),
                      normalize_bounds(
                        IF args.date_from # <<>> THEN parse_date(args.date_from) ELSE NoDate,
                        IF args.date_to # <<>> THEN parse_date(args.date_to) ELSE NoDate,
                        id_or_none(periode_id.value), args.preset, today))

\* one query when the period is looked up
normalize_queries(args, today) ==
  LET r == normalize_filters(args, today)
  IN  IF ~r.raised /\ r.flt.periode_id # NoId
         /\ (args.date_from = <<>> \/ parse_date(args.date_from) = NoDate)
         /\ (args.date_to = <<>> \/ parse_date(args.date_to) = NoDate)
      THEN 1 ELSE 0

Normalize ==
  Call("normalize", normalize_filters(req.args, req.today),
       normalize_queries(req.args, req.today))

\* texts of the request parameters
D20240229 == <<"2", "0", "2", "4", "-", "0", "2", "-", "2", "9">>
D20250229 == <<"2", "0", "2", "5", "-", "0", "2", "-", "2", "9">>
D2024_3_5 == <<"2", "0", "2", "4", "-", "3", "-", "5">>
D20241301 == <<"2", "0", "2", "4", "-", "1", "3", "-", "0", "1">>
DSlashes == <<"2", "0", "2", "4", "/", "0", "1", "/", "0", "1">>
DWord == <<"h", "i", "e", "r">>

DateTexts == { <<>>, D20240229, D20250229, D2024_3_5, D20241301, DSlashes, DWord }

IdTexts == { <<>>, <<"1">>, <<" ", "2">>, <<"0">>, <<"N", "o", "n", "e">>, <<"a", "b", "c">>,
             <<"1", ".", "5">> }

NormalizeArgs ==
  [ secteur : {"", "A"}, sector : {""},
    atelier_id : IdTexts, atelier : {<<>>},
    periode_id : {<<>>, <<"1">>, <<"2">>, <<"x">>}, periode : {<<>>},
    date_from : DateTexts, date_to : {<<>>, D20241301, D2024_3_5},
    preset : {"", "THIS_MONTH", "NEXT_WEEK"},
    group_by : {"", "day", "QUARTER"} ]
    \cup
  [ secteur : {""}, sector : {"B"},
    atelier_id : {<<>>}, atelier : {<<"2">>, <<"a", "b", "c">>},
    periode_id : {<<>>}, periode : {<<"1">>},
    date_from : {<<>>, DWord}, date_to : {<<>>},
    preset : {"", "this_month "},
    group_by : {"Quarter", "month"} ]

\* the stored periods: none, or period 1 (the first half of 2024)
PeriodeStores ==
  { <<>>, <<[date_debut |-> date_ordinal(2024, 1, 1), date_fin |-> date_ordinal(2024, 6, 30)]>> }

InitNormalize ==
  /\ participants = ParticipantTable
  /\ ateliers = <<Atelier(1, FALSE, None, None)>>
  /\ sessions = <<>>
  /\ presences = {}
  /\ actor = AllSecteursActor
  /\ flt \in Filters({NoSecteur}, {NoId}, {NoDate}, {NoDate}, {"MONTH"})
  /\ req \in [args : NormalizeArgs, today : {date_ordinal(2024, 2, 10), date_ordinal(2025, 12, 31)}]
  /\ periodes \in PeriodeStores
  /\ pc = "start"
  /\ res = <<>>
  /\ queries = 0

NextNormalize == Normalize

SpecNormalize == InitNormalize /\ [][NextNormalize]_vars

\* the text is absent or is not a valid YYYY-MM-DD date
NoValidDate(text) ==
  text \notin {D20240229, D2024_3_5}

\* the text is a number, or absent
NumericOrAbsent(text) ==
  text \in {<<>>, <<"N", "o", "n", "e">>} \/ AllDigits(strip_right(strip_left(text)))

\* C17: the filter normalizer never raises on malformed input: it returns a
\* filter record, a date text that is not a valid YYYY-MM-DD date gives no
\* bound of its own, and a non-numeric atelier_id or periode_id is treated as
\* absent.
C17_malformed_input_is_absent ==
  pc = "normalize" =>
    /\ ~res.raised
    /\ (NoValidDate(req.args.date_from) /\ NoValidDate(req.args.date_to)
        /\ req.args.preset = "" /\ req.args.periode_id = <<>> /\ req.args.periode = <<>>) =>
         res.flt.date_from = NoDate /\ res.flt.date_to = NoDate
    /\ ~NumericOrAbsent(req.args.atelier_id) => res.flt.atelier_id = NoId
    /\ ~NumericOrAbsent(req.args.periode_id) => res.flt.periode_id = NoId

\* the date a parameter text stands for, NoDate when it is no valid date
ExplicitDate(text) ==
  CASE text = D20240229 -> date_ordinal(2024, 2, 29)
    [] text = D2024_3_5 -> date_ordinal(2024, 3, 5)
    [] OTHER -> NoDate

\* the stored period the request refers to, 0 when it refers to none
ReferredPeriode ==
  LET text == IF req.args.periode_id # <<>> THEN req.args.periode_id ELSE req.args.periode
  IN  IF text = <<"1">> /\ 1 \in DOMAIN periodes THEN 1 ELSE 0

\* C18: when neither date_from nor date_to yields a valid date, the bounds
\* are those of the stored period periode_id refers to (a preset is then not
\* used), otherwise the preset's pair as of today when a preset is given,
\* otherwise both unset; with a valid explicit bound, the bounds are the
\* explicit ones; group_by is upper-cased, MONTH when absent.
C18_bounds_precedence ==
  pc = "normalize" /\ ~res.raised =>
    LET df == ExplicitDate(req.args.date_from)
        dt == ExplicitDate(req.args.date_to)
        bounds == <<res.flt.date_from, res.flt.date_to>>
    IN  /\ (df # NoDate \/ dt # NoDate) => bounds = <<df, dt>>
        /\ (df = NoDate /\ dt = NoDate /\ ReferredPeriode # 0) =>
             bounds = <<periodes[ReferredPeriode].date_debut, periodes[ReferredPeriode].date_fin>>
        /\ (df = NoDate /\ dt = NoDate /\ ReferredPeriode = 0 /\ req.args.preset # "") =>
             bounds = apply_preset(req.args.preset, req.today)
        /\ (df = NoDate /\ dt = NoDate /\ ReferredPeriode = 0 /\ req.args.preset = "") =>
             bounds = <<NoDate, NoDate>>
        /\ res.flt.group_by =
             CASE req.args.group_by = "" -> "MONTH"
               [] req.args.group_by \in {"day"} -> "DAY"
               [] req.args.group_by \in {"Quarter", "QUARTER"} -> "QUARTER"
               [] req.args.group_by \in {"month"} -> "MONTH"

\* no valid date, a stored period and a preset: the bounds are the period's,
\* not the preset's
C18_witness_period_before_preset ==
  /\ pc = "normalize" /\ ~res.raised
  /\ res.flt.periode_id = 1 /\ 1 \in DOMAIN periodes
  /\ req.args.date_from = DWord
  /\ req.args.preset = "THIS_MONTH" /\ res.flt.preset = "THIS_MONTH"
  /\ res.flt.date_from = date_ordinal(2024, 1, 1)
  /\ res.flt.date_to = date_ordinal(2024, 6, 30)
  /\ apply_preset(req.args.preset, req.today) # <<res.flt.date_from, res.flt.date_to>>
  /\ res.flt.group_by = "DAY"

\* ------------------------------------------------------- new participants
\* the dates of the attendance of pid over the whole history (sessions not
\* deleted, any secteur, workshop and date)
AttendanceDates(pid) ==
  { session_date_expr(sessions[sid]) :
      sid \in { x \in SessionIds : Presence(x, pid) \in presences /\ ~sessions[x].is_deleted } }
    \ {NoDate}

\* d lies within the dates of the filter, an unset bound being unbounded
WithinFilterDates(d) ==
  /\ flt.date_from # NoDate => d >= flt.date_from
  /\ flt.date_to # NoDate => d <= flt.date_to

\* C19: new_participants of the volume analyzer is the number of participants
\* counted in the filtered window whose earliest attendance date, over their
\* entire history, lies within [date_from, date_to].
C19_new_participants ==
  pc = "volume" =>
    res.kpi.new_participants =
      Cardinality({ pid \in WindowParticipants :
                      /\ AttendanceDates(pid) # {}
                      /\ WithinFilterDates(set_min(AttendanceDates(pid))) })

\* ------------------------------------------------- the engine as a reader
\* Every operation of the engine on a few stores (one of them empty), for an
\* actor of every scope, with every view of the matrix builder.
ReadOnlyStores ==
  { [ sessions |-> [sid \in 1..NSessions |->
                      Session(IF sid = 1 THEN 1 ELSE 2, type,
                              FirstDay + DayStride * ((sid - 1) % MaxDay),
                              deleted, None, "realisee", T0900, T1030)],
      presences |-> AllPresences ] : type \in SessionTypes, deleted \in BOOLEAN }
    \cup { [ sessions |-> <<>>, presences |-> {} ] }

ReadOnlyArgs ==
  { a \in NormalizeArgs :
      /\ a.date_from \in {<<>>, DWord} /\ a.date_to = <<>> /\ a.secteur = ""
      /\ a.atelier_id \in {<<>>, <<"a", "b", "c">>} /\ a.periode_id \in {<<>>, <<"1">>}
      /\ a.preset = "THIS_MONTH" /\ a.group_by = "day" }

InitReadOnly ==
  /\ participants = ParticipantTable
  /\ ateliers = <<Atelier(1, FALSE, Some(10), None), Atelier(2, FALSE, Some(10), None)>>
  /\ \E st \in ReadOnlyStores : sessions = st.sessions /\ presences = st.presences
  /\ periodes \in PeriodeStores
  /\ actor \in { AllSecteursActor,
                 [secteur_assigne |-> "A", perms |-> {"statsimpact:view"}],
                 [secteur_assigne |-> NoSecteur, perms |-> {"statsimpact:view"}] }
  /\ flt \in Filters({NoSecteur, "B"}, {NoId}, {NoDate, FirstDay + 1}, {NoDate}, {"MONTH"})
  /\ req \in { [ view |-> view, participant_q |-> <<>>, max_sessions |-> 40,
                 max_participants |-> 250, raw_max_sessions |-> <<>>,
                 raw_max_participants |-> <<>>, tab |-> "", export_mode |-> "flat",
                 today |-> FirstDay, args |-> args, preset |-> args.preset ] :
                 view \in {"macro", "participants", "matrix"}, args \in ReadOnlyArgs }
  /\ pc = "start"
  /\ res = <<>>
  /\ queries = 0

NextReadOnly ==
  \/ Normalize
  \/ ApplyPreset
  \/ ResolveScope
  \/ Accessor
  \/ Volume
  \/ Frequency
  \/ Transversalite
  \/ Demography
  \/ ParticipantsList
  \/ Occupancy
  \/ Magatomatique

SpecReadOnly == InitReadOnly /\ [][NextReadOnly]_vars

\* C20: every operation of the engine (normalization, each analyzer, the
\* occupancy analyzer, the matrix builder in every mode) leaves the workshops,
\* the sessions, the presences, the participants and the periods as they
\* were, also when it returns the restricted or the empty result.
C20_store_unchanged ==
  [][ /\ ateliers' = ateliers
      /\ sessions' = sessions
      /\ presences' = presences
      /\ participants' = participants
      /\ periodes' = periodes ]_vars

\* the matrix builder has returned the restricted result on a store that
\* holds sessions and presences
C20_witness_restricted_on_full_store ==
  /\ pc = "magatomatique"
  /\ res = [restricted |-> TRUE, view |-> "matrix"]
  /\ Len(sessions) = NSessions
  /\ presences = AllPresences

\* ------------------------------------------- the dashboard: a failing analyzer
\* Requests in which no analyzer or one analyzer raises an exception (the
\* data store fails, or the arithmetic on the dates of the filter overflows).
InitDashboard ==
  /\ participants = ParticipantTable
  /\ ateliers = <<Atelier(1, FALSE, Some(10), None), Atelier(2, FALSE, Some(10), None)>>
  /\ sessions = [sid \in 1..NSessions |->
                   Session(IF sid = 1 THEN 1 ELSE 2, "COLLECTIF",
                           FirstDay + DayStride * ((sid - 1) % MaxDay),
                           FALSE, None, "realisee", T0900, T1030)]
  /\ presences \in {AllPresences, StaggeredPresences}
  /\ actor \in RouteActors
  /\ flt \in Filters({NoSecteur, "A"}, {NoId}, {NoDate}, {NoDate}, {"MONTH"})
  /\ req \in { [ NoReq EXCEPT !.fails = fails, !.tab = tab ] :
                 fails \in {""} \cup Range(AnalyzerOrder), tab \in {"base", "magato"} }
  /\ periodes = <<>>
  /\ pc = "start"
  /\ res = <<>>
  /\ queries = 0

NextDashboard == Dashboard

SpecDashboard == InitDashboard /\ [][NextDashboard]_vars

\* the result the analyzer gives on its own for the filter of the dashboard
OwnResult(name) ==
  LET f == default_year(flt, req.today)
  IN  CASE name = "participants" -> compute_participants_stats(actor, f)
        [] name = "stats" -> compute_volume_activity_stats(actor, f)
        [] name = "freq" -> compute_participation_frequency_stats(actor, f)
        [] name = "trans" -> compute_transversalite_stats(actor, f)
        [] name = "demo" -> compute_demography_stats(actor, f)
        [] name = "occupancy" -> compute_occupancy_stats(f)

\* C21: when an analyzer raises during the dashboard request, the analyzers
\* called after it still run and the answer carries their own results.
C21_failure_is_isolated ==
  (pc = "dashboard" /\ can_view(actor) /\ req.fails # "") =>
    \A i, j \in DOMAIN AnalyzerOrder :
      (AnalyzerOrder[i] = req.fails /\ i < j) =>
        /\ AnalyzerOrder[j] \in DOMAIN res
        /\ res[AnalyzerOrder[j]] = OwnResult(AnalyzerOrder[j])

\* ------------------------------------------- occupancy: the capacity fallback
\* a capacity that can be used: set and positive
Usable(cap) == cap # None /\ cap[1] > 0

\* the session's capacity when usable, else the workshop's default when
\* usable, else the constant
FallbackCapacity(sid) ==
  IF Usable(sessions[sid].capacite) THEN sessions[sid].capacite[1]
  ELSE IF Usable(atelier_of(sid).capacite_defaut) THEN atelier_of(sid).capacite_defaut[1]
  ELSE DEFAULT_COLLECTIF_CAPACITY

\* C22: the capacity the occupancy analyzer counts for a collective session is
\* the session's own capacity, else the workshop's default whenever the
\* session has no usable capacity, else the constant 12 only when neither
\* gives one: each workshop row totals these capacities.
C22_capacity_fallback ==
  pc = "occupancy" =>
    \A aid \in DOMAIN res.per_atelier :
      LET of_atelier == { sid \in FilterCollectifs : sessions[sid].atelier_id = aid }
      IN  res.per_atelier[aid].capacity_total =
            SumOver(of_atelier, [sid \in of_atelier |-> FallbackCapacity(sid)])

\* ------------------------------------------------- the duration of a session
\* engine._session_duration_minutes applied to the first session of the store
Duration ==
  Call("duration",
       [ minutes |-> session_duration_minutes(sessions[1], atelier_of(1)) ], 0)

T14h == <<"1", "4", "h">>
T143000 == <<"1", "4", ":", "3", "0", ":", "0", "0">>
T2400 == <<"2", "4", ":", "0", "0">>
T1260 == <<"1", "2", "h", "6", "0">>
TWord == <<"n", "o", "o", "n">>

TimeTexts == {<<>>, T0900, T1030, T14h, T143000, T2400, T1260, TWord}

InitDuration ==
  /\ participants = ParticipantTable
  /\ ateliers \in { <<Atelier(1, FALSE, None, duree)>> : duree \in {None, Some(0), Some(60)} }
  /\ sessions \in { <<Session(1, type, FirstDay, FALSE, None, "realisee", debut, fin)>> :
                      type \in SessionTypes, debut \in TimeTexts, fin \in TimeTexts }
  /\ presences = {}
  /\ actor = AllSecteursActor
  /\ flt \in Filters({NoSecteur}, {NoId}, {NoDate}, {NoDate}, {"MONTH"})
  /\ req = NoReq
  /\ periodes = <<>>
  /\ pc = "start"
  /\ res = <<>>
  /\ queries = 0

NextDuration == Duration

SpecDuration == InitDuration /\ [][NextDuration]_vars

\* what each text of TimeTexts says, read by hand: 09:00, 10h30, 14h and
\* 14:30:00 are times of day; 24:00 and 12h60 are out of range
MinutesOf(t) ==
  CASE t = T0900 -> Some(9 * 60)
    [] t = T1030 -> Some(10 * 60 + 30)
    [] t = T14h -> Some(14 * 60)
    [] t = T143000 -> Some(14 * 60 + 30)
    [] OTHER -> None

\* start and end of the first session, for its type
StartText == IF sessions[1].session_type = "COLLECTIF" THEN sessions[1].heure_debut
             ELSE sessions[1].rdv_debut

EndText == IF sessions[1].session_type = "COLLECTIF" THEN sessions[1].heure_fin
           ELSE sessions[1].rdv_fin

DefaultDuration ==
  IF atelier_of(1).duree_defaut_minutes # None THEN atelier_of(1).duree_defaut_minutes[1] ELSE 0

\* C23 as stated: the duration is end - start whenever both texts parse, else
\* the workshop's default duration when set, else 0; the four forms are
\* accepted and an hour or a minute out of range is rejected.
C23_duration_whenever_both_parse ==
  pc = "duration" =>
    res.minutes = IF MinutesOf(StartText) # None /\ MinutesOf(EndText) # None
                  THEN MinutesOf(EndText)[1] - MinutesOf(StartText)[1]
                  ELSE DefaultDuration

\* C23 amended: the duration is end - start whenever both texts parse and the
\* end is after the start, else the workshop's default duration when set,
\* else 0; the four forms are accepted and an hour or a minute out of range
\* is rejected.
C23_duration_when_end_after_start ==
  pc = "duration" =>
    res.minutes = IF /\ MinutesOf(StartText) # None /\ MinutesOf(EndText) # None
                     /\ MinutesOf(EndText)[1] > MinutesOf(StartText)[1]
                  THEN MinutesOf(EndText)[1] - MinutesOf(StartText)[1]
                  ELSE DefaultDuration

\* an individual appointment from 14:30:00 to 14h falls back to the default
C23_witness_end_before_start ==
  /\ pc = "duration"
  /\ sessions[1].session_type = "INDIVIDUEL_MENSUEL"
  /\ StartText = T143000 /\ EndText = T14h
  /\ DefaultDuration = 60
  /\ res.minutes = 60

\* --------------------------------------------- volume: hours and capacities
\* Sessions of workshop 1, all on the same day: the first of any type, status,
\* capacity and with or without times, the others of any type, with or
\* without times.
HoursSessions ==
  { [sid \in 1..NSessions |->
       Session(1, type[sid], FirstDay, FALSE,
               IF sid = 1 THEN cap ELSE None,
               IF sid = 1 THEN statut ELSE "realisee",
               IF timed[sid] THEN T0900 ELSE <<>>,
               IF timed[sid] THEN T1030 ELSE <<>>)] :
      type \in [1..NSessions -> SessionTypes], timed \in [1..NSessions -> BOOLEAN],
      cap \in {None, Some(3)}, statut \in {"realisee", "annulee"} }

InitHours ==
  /\ participants = ParticipantTable
  /\ ateliers \in { <<Atelier(1, FALSE, cap, duree), Atelier(2, FALSE, None, None)>> :
                      cap \in {None, Some(8)}, duree \in {None, Some(60)} }
  /\ sessions \in HoursSessions
  /\ presences \in {{}, StaggeredPresences, AllPresences,
                     { p \in AllPresences : p.session_id # 1 }}
  /\ flt \in Filters({NoSecteur}, {NoId}, {NoDate}, {NoDate}, {"MONTH"})
  /\ actor = AllSecteursActor
  /\ req = NoReq
  /\ periodes = <<>>
  /\ pc = "start"
  /\ res = <<>>
  /\ queries = 0

NextHours == Volume

SpecHours == InitHours /\ [][NextHours]_vars

\* the duration of a session of HoursSessions, read by hand: an hour and a
\* half from 09:00 to 10h30, else the default of the workshop, else 0
MinutesOfSession(sid) ==
  IF sessions[sid].heure_debut # <<>> \/ sessions[sid].rdv_debut # <<>> THEN 90
  ELSE IF atelier_of(sid).duree_defaut_minutes # None
       THEN atelier_of(sid).duree_defaut_minutes[1]
  ELSE 0

Attendance(sid) == Cardinality({ p \in presences : p.session_id = sid })

\* duration x presences for a collective session, the duration once for an
\* individual session with a presence
PeopleMinutesOfSession(sid) ==
  IF sessions[sid].session_type = "COLLECTIF" THEN MinutesOfSession(sid) * Attendance(sid)
  ELSE IF Attendance(sid) >= 1 THEN MinutesOfSession(sid)
  ELSE 0

\* minutes as hours rounded to two decimals (half to even), in hundredths
HundredthsOfHours(minutes) ==
  LET q == (minutes * 100) \div 60
      r == (minutes * 100) % 60
  IN  IF r > 30 \/ (r = 30 /\ q % 2 = 1) THEN q + 1 ELSE q

\* C24: animator-hours is the sum of the durations of all sessions of the
\* window, attended or not; participant-hours adds duration x presences for a
\* collective session and the duration once for an individual session with
\* at least one presence.
C24_animator_and_participant_hours ==
  pc = "volume" =>
    /\ res.kpi.hours_animator =
         HundredthsOfHours(SumOver(SessionIds, [sid \in SessionIds |-> MinutesOfSession(sid)]))
    /\ res.kpi.hours_people =
         HundredthsOfHours(SumOver(SessionIds,
                                   [sid \in SessionIds |-> PeopleMinutesOfSession(sid)]))

\* a collective session nobody attended counts for the animator only, next
\* to an individual session that two participants attended
C24_witness_unattended_and_individual ==
  /\ pc = "volume"
  /\ \E sid \in SessionIds :
       /\ sessions[sid].session_type = "COLLECTIF"
       /\ Attendance(sid) = 0 /\ MinutesOfSession(sid) = 90
  /\ \E sid \in SessionIds :
       /\ sessions[sid].session_type # "COLLECTIF"
       /\ Attendance(sid) = 2 /\ MinutesOfSession(sid) = 60
  /\ res.kpi.hours_animator = 250
  /\ res.kpi.hours_people = 100

\* the capacity of a session: its own, else the default of its workshop,
\* else 0
CapacityOfSession(sid) ==
  IF sessions[sid].capacite # None THEN sessions[sid].capacite[1]
  ELSE IF atelier_of(sid).capacite_defaut # None THEN atelier_of(sid).capacite_defaut[1]
  ELSE 0

\* C25: in each workshop row planned_capacity is the sum of the capacities of
\* all the sessions of the workshop in the window and real_capacity the sum
\* over the ones not cancelled, whatever their duration; sessions_planned
\* counts all of them and sessions_real the ones not cancelled; the real
\* figures are at most the planned ones.
C25_planned_and_real_capacity ==
  pc = "volume" =>
    \A i \in DOMAIN res.table_ateliers :
      LET row == res.table_ateliers[i]
          mine == { sid \in SessionIds : sessions[sid].atelier_id = row.atelier_id }
          real == { sid \in mine : sessions[sid].statut # "annulee" }
      IN  /\ row.planned_capacity = SumOver(mine, [sid \in mine |-> CapacityOfSession(sid)])
          /\ row.real_capacity = SumOver(real, [sid \in real |-> CapacityOfSession(sid)])
          /\ row.sessions_planned = Cardinality(mine)
          /\ row.sessions_real = Cardinality(real)
          /\ row.real_capacity <= row.planned_capacity
          /\ row.sessions_real <= row.sessions_planned

\* ------------------------------------------- volume: the comparison window
\* The window of the filter is [FirstDay + 10, FirstDay + 12] (three days, so
\* the one before is [FirstDay + 7, FirstDay + 9]), one day, open on a side,
\* or empty; the sessions take place around the bounds of both windows.
WindowDays == { FirstDay + 6, FirstDay + 7, FirstDay + 9, FirstDay + 10, FirstDay + 12,
                FirstDay + 13 }

PreviousSessions ==
  { [sid \in 1..NSessions |->
       Session(IF one \/ sid % 2 = 1 THEN 1 ELSE 2, "COLLECTIF", day[sid],
               sid = 1 /\ deleted, None, "realisee", T0900, T1030)] :
      day \in [1..NSessions -> WindowDays], deleted \in BOOLEAN, one \in BOOLEAN }

AssignedActor(sect) == [secteur_assigne |-> sect, perms |-> {"statsimpact:view"}]

InitPrevious ==
  /\ participants = ParticipantTable
  /\ ateliers = <<Atelier(1, FALSE, Some(10), None), Atelier(2, FALSE, Some(10), None)>>
  /\ sessions \in PreviousSessions
  /\ presences = AllPresences
  /\ flt \in Filters({NoSecteur, "A"}, {NoId},
                     {NoDate, FirstDay + 10, FirstDay + 12, FirstDay + 13},
                     {NoDate, FirstDay + 12}, {"MONTH"})
  /\ actor \in {AllSecteursActor, AssignedActor("B")}
  /\ req = NoReq
  /\ periodes = <<>>
  /\ pc = "start"
  /\ res = <<>>
  /\ queries = 0

NextPrevious == Volume

SpecPrevious == InitPrevious /\ [][NextPrevious]_vars

\* the sessions of workshop aid that the actor may see under the filter and
\* that take place from day lo to day hi
ScopedBetween(aid, lo, hi) ==
  { sid \in SessionIds :
      /\ sessions[sid].atelier_id = aid
      /\ ~sessions[sid].is_deleted /\ ~atelier_of(sid).is_deleted
      /\ IF "scope:all_secteurs" \in actor.perms \/ "statsimpact:view_all" \in actor.perms
         THEN flt.secteur \in {NoSecteur, atelier_of(sid).secteur}
         ELSE atelier_of(sid).secteur = actor.secteur_assigne
      /\ flt.atelier_id \in {NoId, aid}
      /\ lo <= session_date_expr(sessions[sid]) /\ session_date_expr(sessions[sid]) <= hi }

\* C26: with both date bounds, a workshop row is flagged new exactly when the
\* workshop has a scoped session in the window and none in the window of the
\* same number of days that ends the day before date_from; with a bound
\* missing there is no comparison, has_previous_period is false and no row
\* is flagged.
C26_new_versus_previous ==
  pc = "volume" =>
    IF flt.date_from # NoDate /\ flt.date_to # NoDate
    THEN LET n == flt.date_to - flt.date_from + 1
         IN  \A i \in DOMAIN res.table_ateliers :
               LET aid == res.table_ateliers[i].atelier_id
               IN  res.table_ateliers[i].is_new_vs_previous <=>
                     /\ ScopedBetween(aid, flt.date_from, flt.date_to) # {}
                     /\ ScopedBetween(aid, flt.date_from - n, flt.date_from - 1) = {}
    ELSE /\ ~res.has_previous_period
         /\ \A i \in DOMAIN res.table_ateliers : ~res.table_ateliers[i].is_new_vs_previous

\* a workshop that met the day before the comparison window starts, and in
\* the window, is new
C26_witness_new_after_a_gap ==
  /\ pc = "volume"
  /\ flt.date_from = FirstDay + 10 /\ flt.date_to = FirstDay + 12
  /\ res.has_previous_period
  /\ \E sid \in SessionIds :
       ~sessions[sid].is_deleted /\ session_date_expr(sessions[sid]) = FirstDay + 6
  /\ Len(res.table_ateliers) = 1
  /\ res.table_ateliers[1].is_new_vs_previous
  /\ res.table_ateliers[1].sessions = 1

\* ------------------------------------------------ soft-deleted rows
\* Workshop 1 and the first session may be soft-deleted; the sessions
\* alternate between the two workshops and between the days.
SoftDeleteSessions ==
  { [sid \in 1..NSessions |->
       Session(IF sid % 2 = 1 THEN 1 ELSE 2, "COLLECTIF",
               FirstDay + DayStride * ((sid - 1) % MaxDay),
               sid = 1 /\ deleted, None, "realisee", T0900, T1030)] :
      deleted \in BOOLEAN }

InitSoftDelete ==
  /\ participants = ParticipantTable
  /\ ateliers \in { <<Atelier(1, deleted, Some(10), None), Atelier(2, FALSE, Some(10), None)>> :
                      deleted \in BOOLEAN }
  /\ sessions \in SoftDeleteSessions
  /\ presences \in VolumePresences
  /\ flt \in Filters({NoSecteur}, {NoId}, {NoDate, FirstDay + DayStride}, {NoDate}, {"MONTH"})
  /\ actor = AllSecteursActor
  /\ req = NoReq
  /\ periodes = <<>>
  /\ pc = "start"
  /\ res = <<>>
  /\ queries = 0

NextSoftDelete == Volume \/ Frequency \/ Transversalite \/ Magatomatique

SpecSoftDelete == InitSoftDelete /\ [][NextSoftDelete]_vars

\* a session that counts: not soft-deleted, of a workshop not soft-deleted
Live(sid) == ~sessions[sid].is_deleted /\ ~atelier_of(sid).is_deleted

WithinBounds(d) ==
  /\ d # NoDate
  /\ flt.date_from # NoDate => d >= flt.date_from
  /\ flt.date_to # NoDate => d <= flt.date_to

\* the live sessions of the window (here the actor sees every secteur and the
\* filter names none), and their attendance
LiveWindow ==
  { sid \in SessionIds :
      /\ Live(sid)
      /\ \/ (flt.date_from = NoDate /\ flt.date_to = NoDate)
         \/ WithinBounds(session_date_expr(sessions[sid])) }

LiveAttendance == { p \in presences : p.session_id \in LiveWindow }

\* the dates of the live sessions participant pid ever attended
LiveDates(pid) ==
  { session_date_expr(sessions[p.session_id]) :
      p \in { q \in presences : q.participant_id = pid /\ Live(q.session_id) } } \ {NoDate}

\* the participants whose first live attendance lies within the bounds
LiveNewcomers ==
  { pid \in ParticipantIds :
      /\ LiveDates(pid) # {}
      /\ WithinBounds(CHOOSE d \in LiveDates(pid) : \A e \in LiveDates(pid) : d <= e) }

\* the secteurs of the live sessions of the window participant pid attended
LiveSecteurs(pid) ==
  { atelier_of(p.session_id).secteur :
      p \in { q \in LiveAttendance : q.participant_id = pid } }

InitSameSessions ==
  /\ participants = ParticipantTable
  /\ ateliers \in { <<Atelier(1, deleted, Some(10), None), Atelier(2, FALSE, Some(10), None)>> :
                      deleted \in BOOLEAN }
  /\ sessions \in SoftDeleteSessions
  /\ presences \in VolumePresences
  /\ flt \in Filters({NoSecteur, "A"}, {NoId, 1}, {NoDate, FirstDay + DayStride},
                     {NoDate, FirstDay}, {"MONTH"})
  /\ actor \in {AllSecteursActor, AssignedActor("B"), AssignedActor(NoSecteur)}
  /\ req = NoReq
  /\ periodes = <<>>
  /\ pc = "start"
  /\ res = <<>>
  /\ queries = 0

NextSameSessions == Volume \/ Frequency

SpecSameSessions == InitSameSessions /\ [][NextSameSessions]_vars

\* the attendance of the sessions each analyzer queries
VolumeAttendance ==
  presences_in(query_sessions_for_period(actor, flt, flt.date_from, flt.date_to))

FrequencyAttendance == presences_in(apply_common_filters(actor, flt))

\* C28: for the same actor, filter and store the volume analyzer and the
\* frequency analyzer see the same sessions: the presences and uniques of the
\* one are the presences_total and uniques of the other.
C28_volume_and_frequency_agree ==
  /\ pc = "volume" =>
       /\ res.kpi.presences = Cardinality(FrequencyAttendance)
       /\ res.kpi.uniques = Cardinality(pids_of(FrequencyAttendance))
  /\ pc = "frequency" =>
       /\ res.presences_total = Cardinality(VolumeAttendance)
       /\ res.uniques = Cardinality(pids_of(VolumeAttendance))

\* the filter names a workshop and keeps a part of the attendance
C28_witness_one_workshop ==
  /\ pc = "volume"
  /\ flt.atelier_id = 1
  /\ res.kpi.presences > 0
  /\ res.kpi.presences < Cardinality(presences)
  /\ res.kpi.presences = Cardinality(FrequencyAttendance)

\* ------------------------------------------------ volume: sectors_summary
\* Four workshops, the last two of the same secteur; each session belongs to
\* the first, the third or the fourth.
InitSectors ==
  /\ participants = ParticipantTable
  /\ ateliers = [aid \in 1..4 |-> Atelier(aid, FALSE, Some(10), None)]
  /\ sessions \in { [sid \in 1..NSessions |->
                       Session(w[sid], "COLLECTIF", FirstDay, FALSE, None, "realisee",
                               T0900, T1030)] :
                      w \in [1..NSessions -> {1, 3, 4}] }
  /\ presences \in VolumePresences
  /\ flt \in Filters({NoSecteur, "C"}, {NoId}, {NoDate}, {NoDate}, {"MONTH"})
  /\ actor = AllSecteursActor
  /\ req = NoReq
  /\ periodes = <<>>
  /\ pc = "start"
  /\ res = <<>>
  /\ queries = 0

NextSectors == Volume

SpecSectors == InitSectors /\ [][NextSectors]_vars

\* the rows of table_ateliers of secteur sect
RowsOfSecteur(sect) ==
  { i \in DOMAIN res.table_ateliers : res.table_ateliers[i].secteur = sect }

\* the participants present in secteur sect in the window (no date bound and
\* every session live here)
PresentInSecteur(sect) ==
  { p.participant_id :
      p \in { q \in presences :
                /\ atelier_of(q.session_id).secteur = sect
                /\ flt.secteur \in {NoSecteur, sect} } }

\* C29: in sectors_summary the sessions and presences of a secteur are the
\* sums of the rows of its workshops, and its uniques is the number of
\* distinct participants present in the secteur, at most kpi.uniques: a
\* participant of two workshops of the secteur counts once.
C29_sector_uniques_are_distinct ==
  pc = "volume" =>
    \A sect \in DOMAIN res.sectors_summary :
      LET mine == RowsOfSecteur(sect)
      IN  /\ res.sectors_summary[sect].sessions =
               SumOver(mine, [i \in mine |-> res.table_ateliers[i].sessions])
          /\ res.sectors_summary[sect].presences =
               SumOver(mine, [i \in mine |-> res.table_ateliers[i].presences])
          /\ res.sectors_summary[sect].uniques = Cardinality(PresentInSecteur(sect))
          /\ res.sectors_summary[sect].uniques <= res.kpi.uniques

\* ------------------------------------------------- the cells of the matrix
ListedParticipants == { res.participants[i].id : i \in DOMAIN res.participants }

ListedSessions == { res.sessions[i].id : i \in DOMAIN res.sessions }

CellsOfRow(pid) == { c \in res.matrix : c[1] = pid }

\* C30: in matrix mode every cell is keyed by a listed participant and a
\* listed session, a cell is set exactly when the store holds an attendance
\* record of the pair, and the nb_presences of a listed participant is at
\* least the number of cells set in their row.
C30_matrix_cells ==
  (pc = "magatomatique" /\ ~res.restricted /\ res.view = "matrix") =>
    /\ res.matrix \subseteq ListedParticipants \X ListedSessions
    /\ \A pid \in ListedParticipants, sid \in ListedSessions :
         <<pid, sid>> \in res.matrix <=> Presence(sid, pid) \in presences
    /\ \A i \in DOMAIN res.participants :
         res.participants[i].nb_presences >= Cardinality(CellsOfRow(res.participants[i].id))

\* one session column out of two: a participant with two presences has one
\* cell, another listed participant has none
C30_witness_truncated_columns ==
  /\ pc = "magatomatique" /\ ~res.restricted /\ res.view = "matrix"
  /\ req.max_sessions = 1
  /\ Cardinality(ListedSessions) = 1
  /\ \E i \in DOMAIN res.participants :
       /\ res.participants[i].nb_presences = 2
       /\ Cardinality(CellsOfRow(res.participants[i].id)) = 1
  /\ \E i \in DOMAIN res.participants : CellsOfRow(res.participants[i].id) = {}

====
